---------------------------- MODULE Spec2Model ----------------------------
(***************************************************************************)
(* A model of the AST transformation pipeline of the workflow inference    *)
(* compiler (src/src/wic/ast.py): resolution of subworkflow references     *)
(* (read_ast_from_disk), override merging (merge_yml_trees), discovery of  *)
(* inlineable subworkflows (get_inlineable_subworkflows), structural       *)
(* inlining (inline_subworkflow, apply_args, inline_subworkflow_wic_tag).  *)
(*                                                                         *)
(* Representation.  A Python dict is a TLA+ function whose DOMAIN is the   *)
(* set of its keys, so "has exactly the keys ..." is a statement about     *)
(* DOMAIN.  A yml document is a dict with the optional keys "steps",       *)
(* "inputs" and "wic".  "steps" is a sequence of single-key dicts.  The    *)
(* wic step key f'({i+1}, {step_key})' is the pair <<i+1, step_key>>, a    *)
(* step name f'{stem}__step...' is the record [stem, n, key], and a        *)
(* StepId is the pair <<stem, plugin_ns>>.  Python's None (a step without  *)
(* arguments) is the one-field dict NoneVal.  Scalars are strings.         *)
(***************************************************************************)
EXTENDS Integers, Sequences, FiniteSets, TLC

VARIABLES
    pc,           \* position of the driver in the pipeline
    raw,          \* the root document as the driver was given it
    tree,         \* the YamlTree the driver holds: [step_id, doc]
    validator,    \* the documents the schema validator rejects
    ignore_validation_errors,
    searched,     \* the catalog lookups made by the last read_ast_from_disk
    paths,        \* the last result of get_inlineable_subworkflows
    call,         \* the last inline_subworkflow call: its path, its argument
                  \* before and after the call, and what it returned or raised
    backend,      \* the backend utils.extract_backend selects
    in_order,     \* the order in which the yml files list the keys of in:
    aa,           \* the last apply_args experiment (SpecApply only)
    ms,           \* the last move_slash_last experiment (SpecSlash only)
    cw,           \* the last inline_subworkflow_cwl experiment (SpecCwl only)
    rd            \* the reader working through a catalog (SpecRead only)

vars == <<pc, raw, tree, validator, ignore_validation_errors, searched, paths,
          call, backend, in_order, aa, ms, cw, rd>>

----------------------------------------------------------------------------
(* Dicts *)

Empty == [k \in {} |-> k]

NoneVal == [None |-> TRUE]

Get(d, k, default) == IF k \in DOMAIN d THEN d[k] ELSE default

Put(d, k, v) == [y \in (DOMAIN d) \cup {k} |-> IF y = k THEN v ELSE d[y]]

Del(d, k) == [y \in (DOMAIN d) \ {k} |-> d[y]]

Range(s) == {s[j] : j \in DOMAIN s}

\* A sequence with the elements of the set S, in the order of the sequence ord.
RECURSIVE InOrder(_, _)
InOrder(S, ord) ==
    IF ord = <<>> THEN <<>>
    ELSE IF Head(ord) \in S THEN <<Head(ord)>> \o InOrder(S, Tail(ord))
         ELSE InOrder(S, Tail(ord))


----------------------------------------------------------------------------
(* utils: identifiers, step keys, wic step keys (the module utils is not    *)
(* among the source files; these follow the specification, §4.1 and §4.6).  *)

\* The step keys that name yml files, with their stems (Path(step_key).stem).
YmlStems ==
    ("S.yml" :> "S") @@ ("T.yml" :> "T") @@ ("Z.yml" :> "Z") @@ ("K.yml" :> "K")

PathStem(name) == IF name \in DOMAIN YmlStems THEN YmlStems[name] ELSE name

\* The key of each step: each step is a single-key dict.
get_steps_keys(steps) ==
    [j \in DOMAIN steps |-> CHOOSE k \in DOMAIN steps[j] : TRUE]

\* The step keys that do not name a tool: the subworkflows.
get_subkeys(steps_keys, tools_stems) ==
    {k \in Range(steps_keys) : PathStem(k) \notin tools_stems}

\* '{yaml_stem}__step-{i+1}_{step_key}', i 0-based.
step_name_str(yaml_stem, i, step_key) ==
    [stem |-> yaml_stem, n |-> i + 1, key |-> step_key]

\* A string that is no step name (a bare backend name, say).
PlainName(s) == [plain |-> s]

IsStepName(s) == DOMAIN s = {"stem", "n", "key"}

\* The inverse of step_name_str: (yaml_stem, i, step_key), i 0-based.
parse_step_name_str(s) == <<s.stem, s.n - 1, s.key>>

\* f'({i+1}, {step_key})', i 0-based.
StepKeyStr(i, step_key) == <<i + 1, step_key>>

\* Every key (m, k) with m >= index becomes (m + num_steps, k).
reindex_wic_steps(wic_steps, index, num_steps) ==
    LET newkey(key) == IF key[1] >= index
                       THEN <<key[1] + num_steps, key[2]>> ELSE key
        old(nk) == CHOOSE key \in DOMAIN wic_steps : newkey(key) = nk
    IN  [nk \in {newkey(key) : key \in DOMAIN wic_steps} |-> wic_steps[old(nk)]]

flatten(lists) ==
    LET RECURSIVE cat(_)
        cat(ls) == IF ls = <<>> THEN <<>> ELSE Head(ls) \o cat(Tail(ls))
    IN  cat(lists)

StepId(stem, plugin_ns) == <<stem, plugin_ns>>

\* The order in which a dict with these keys is iterated (its insertion
\* order: the order in which the yml file lists them).
BackendOrder == <<"b1", "b2">>

----------------------------------------------------------------------------
(* The inputs: the tool catalog, the yml catalog and the root documents.    *)

ToolStems == {"A", "B"}

Step(k, v) == (k :> v)

DocT ==
    [inputs |-> [z |-> "string"],
     steps  |-> << Step("A", [in |-> [u |-> "~z"]]), Step("B", NoneVal) >>,
     wic    |-> [steps |-> (<<2, "B">> :> [in |-> [w |-> "t2"]])]]

DocS ==
    [inputs |-> [x |-> "string", y |-> "string"],
     steps  |-> << Step("A", [in |-> [p |-> "~x"]]),
                   Step("T.yml", [in |-> [z |-> "~y"]]),
                   Step("B", NoneVal) >>,
     wic    |-> [steps |->
                   (<<1, "A">> :> [in |-> [q |-> "s1"]]) @@
                   (<<2, "T.yml">> :>
                       [wic |-> [steps |-> (<<1, "A">> :> [in |-> [q |-> "s2"]])]])]]

\* The document S of the namespace N: another body under the same stem.
DocSN ==
    [inputs |-> [x |-> "string"],
     steps  |-> << Step("A", [in |-> [p |-> "~x"]]) >>]

DocZ == [steps |-> <<>>]

DocB1 ==
    [steps |-> << Step("A", NoneVal), Step("S.yml", [in |-> [x |-> "k"]]),
                  Step("B", NoneVal) >>]

DocB2 ==
    [steps |-> << Step("B", [in |-> [v |-> "b"]]), Step("A", NoneVal),
                  Step("B", NoneVal) >>]

DocK == [wic |-> [backends |-> [b1 |-> DocB1, b2 |-> DocB2]]]

\* yml_paths: namespace -> stem -> the yml file (whether it exists, and the
\* document yaml.safe_load reads from it).
File(doc) == [exists |-> TRUE, doc |-> doc]

yml_paths ==
    [global |-> [S |-> File(DocS), T |-> File(DocT), Z |-> File(DocZ),
                 K |-> File(DocK)],
     N      |-> [S |-> File(DocSN)]]

\* The call-site arguments the root gives the subworkflow S.
ParentArgs ==
    { NoneVal,
      [in |-> [x |-> "42"]],
      [in |-> [x |-> "42", y |-> "~w"]] }

\* The arguments the root gives its tool step A.
ToolArgs == { NoneVal, [in |-> [a |-> "1"], wic |-> [graphviz |-> "g"]] }

\* The per-step wic block of the root for S: the namespace to search,
\* whether S may be inlined (absent when it may), and an override for the
\* first step of S.
SubBlock(sns, inl) ==
    [wic |-> (IF sns = "" THEN Empty ELSE [namespace |-> sns]) @@
             (IF inl THEN Empty ELSE [inlineable |-> FALSE]) @@
             [steps |-> (<<1, "A">> :> [in |-> [q |-> "r1"]])]]

ToolBlock == [in |-> [r |-> "r3"], wic |-> [graphviz |-> "g"]]

\* The per-step wic block of the root for K: an override for the third
\* step of the backends of K.
BackendsBlock == [wic |-> [steps |-> (<<3, "B">> :> [in |-> [r |-> "o"]])]]

RootWic(rns, stepsmeta) ==
    (IF rns = "" THEN Empty ELSE [namespace |-> rns]) @@ [steps |-> stepsmeta]

\* The root documents: shape 1 is [A, S, B], shape 2 is [Z, S, B], shape 3
\* is [A, K], shape 4 is the backends document K itself.
RootDoc(shape, rns, sns, inl, pargs, targs) ==
    CASE shape = 1 ->
           [steps |-> << Step("A", targs), Step("S.yml", pargs), Step("B", NoneVal) >>,
            wic   |-> RootWic(rns, (<<2, "S.yml">> :> SubBlock(sns, inl)) @@
                                   (<<3, "B">> :> ToolBlock))]
      [] shape = 2 ->
           [steps |-> << Step("Z.yml", NoneVal), Step("S.yml", pargs), Step("B", targs) >>,
            wic   |-> RootWic(rns, (<<2, "S.yml">> :> SubBlock(sns, inl)) @@
                                   (<<3, "B">> :> ToolBlock))]
      [] shape = 3 ->
           [steps |-> << Step("A", targs), Step("K.yml", NoneVal) >>,
            wic   |-> RootWic(rns, (<<1, "A">> :> ToolBlock) @@
                                   (<<2, "K.yml">> :> BackendsBlock))]
      [] OTHER ->
           [wic |-> (IF rns = "" THEN Empty ELSE [namespace |-> rns]) @@ DocK.wic]


----------------------------------------------------------------------------
(* mergedeep.merge(destination, source, strategy=TYPESAFE_REPLACE): keys of *)
(* both sides that hold dicts are merged recursively, any other key of the  *)
(* source replaces the destination's.  Which keys hold dicts is fixed by    *)
(* the kind of dict: a wic tag holds a dict under "steps", a per-step block *)
(* (or a tool's arguments) under "wic" and "in", wic steps under every key. *)

MergeFlat(dst, src) ==
    [k \in (DOMAIN dst) \cup (DOMAIN src) |->
        IF k \in DOMAIN src THEN src[k] ELSE dst[k]]

RECURSIVE MergeWic(_, _)
RECURSIVE MergeBlock(_, _)
RECURSIVE MergeWicSteps(_, _)

MergeWicSteps(dst, src) ==
    [k \in (DOMAIN dst) \cup (DOMAIN src) |->
        IF k \in DOMAIN src
        THEN IF k \in DOMAIN dst THEN MergeBlock(dst[k], src[k]) ELSE src[k]
        ELSE dst[k]]

MergeWic(dst, src) ==
    [k \in (DOMAIN dst) \cup (DOMAIN src) |->
        IF k \in DOMAIN src
        THEN IF k \in DOMAIN dst /\ k = "steps"
             THEN MergeWicSteps(dst[k], src[k]) ELSE src[k]
        ELSE dst[k]]

MergeBlock(dst, src) ==
    [k \in (DOMAIN dst) \cup (DOMAIN src) |->
        IF k \in DOMAIN src
        THEN IF k \in DOMAIN dst /\ k = "wic" THEN MergeWic(dst[k], src[k])
             ELSE IF k \in DOMAIN dst /\ k = "in" THEN MergeFlat(dst[k], src[k])
             ELSE src[k]
        ELSE dst[k]]

----------------------------------------------------------------------------
(* read_ast_from_disk: the Resolver.                                        *)

YamlTree(step_id, doc) == [step_id |-> step_id, doc |-> doc]

Raised(kind, log) == [err |-> kind, tree |-> Empty, searched |-> log]

\* Lines 119-122: the value of a resolved subworkflow step.  The two dicts
\* are not merged.
ResolvedStepMerged(sub_yml_tree, step_value) ==
    MergeFlat(sub_yml_tree,
              IF step_value = NoneVal THEN Empty ELSE step_value)

ResolvedStep(sub_yml_tree, step_value) ==
    LET step_i_dict == IF step_value = NoneVal THEN Empty ELSE step_value
    IN  [subtree |-> sub_yml_tree, parentargs |-> step_i_dict]

\* Lines 93-94: the namespace searched for the subworkflow of a step, given
\* the step's block in the wic steps of its document.
PluginNsGlobal(sub_wic) == "global"

PluginNs(sub_wic) == Get(Get(sub_wic, "wic", Empty), "namespace", "global")

RECURSIVE read_ast_from_disk(_, _)
RECURSIVE read_ast_backends(_, _, _, _)
RECURSIVE read_ast_steps(_, _, _, _)

\* Lines 62-74: each backend is read under StepId(back_name, plugin_ns), and
\* the backends dict is rebuilt from the (step_id, document) pairs.
read_ast_backends(yaml_tree, names, done, log) ==
    IF names = <<>>
    THEN [err |-> "", doc |-> [yaml_tree EXCEPT !.wic.backends = done],
          searched |-> log]
    ELSE LET back_name == Head(names)
             back      == yaml_tree.wic.backends[back_name]
             plugin_ns == Get(yaml_tree.wic, "namespace", "global")
             stepid    == StepId(back_name, plugin_ns)
             r         == read_ast_from_disk(stepid, back)
         IN  IF r.err # ""
             THEN [err |-> r.err, doc |-> yaml_tree, searched |-> log \cup r.searched]
             ELSE read_ast_backends(yaml_tree, Tail(names),
                                    Put(done, r.tree.step_id, r.tree.doc),
                                    log \cup r.searched)

\* Lines 82-122, from step j (1-based) on.
read_ast_steps(step_id, yaml_tree, j, log) ==
    LET steps      == yaml_tree.steps
        wic        == Get(yaml_tree, "wic", Empty)
        wic_steps  == Get(wic, "steps", Empty)
        steps_keys == get_steps_keys(steps)
        subkeys    == get_subkeys(steps_keys, ToolStems)
    IN  IF j > Len(steps)
        THEN [err |-> "", doc |-> yaml_tree, searched |-> log]
        ELSE
        LET step_key == steps_keys[j]
            stem     == PathStem(step_key)
        IN  IF step_key \notin subkeys
            THEN read_ast_steps(step_id, yaml_tree, j + 1, log)
            ELSE
            LET sub_wic    == Get(wic_steps, StepKeyStr(j - 1, step_key), Empty)
                plugin_ns  == PluginNs(sub_wic)
                lookup     == [doc      |-> step_id[1], n |-> j, key |-> step_key,
                               declared |-> Get(Get(sub_wic, "wic", Empty), "namespace", ""),
                               parent   |-> Get(wic, "namespace", ""),
                               ns       |-> plugin_ns]
                log2       == log \cup {lookup}
                paths_ns_i == Get(yml_paths, plugin_ns, Empty)
            IN  IF paths_ns_i = Empty
                THEN [err |-> "NamespaceMiss", doc |-> yaml_tree, searched |-> log2]
                ELSE IF stem \notin DOMAIN paths_ns_i
                THEN [err |-> "StemMiss", doc |-> yaml_tree, searched |-> log2]
                ELSE IF ~ paths_ns_i[stem].exists
                THEN [err |-> "DocumentNotFound", doc |-> yaml_tree, searched |-> log2]
                ELSE
                LET y_t == YamlTree(StepId(step_key, plugin_ns), paths_ns_i[stem].doc)
                    r   == read_ast_from_disk(y_t.step_id, y_t.doc)
                IN  IF r.err # ""
                    THEN [err |-> r.err, doc |-> yaml_tree,
                          searched |-> log2 \cup r.searched]
                    ELSE
                    LET new == ResolvedStep(r.tree.doc, steps[j][step_key])
                    IN  read_ast_steps(step_id,
                            [yaml_tree EXCEPT !.steps[j] = Step(step_key, new)],
                            j + 1, log2 \cup r.searched)

read_ast_from_disk(step_id, yaml_tree) ==
    IF ~ ignore_validation_errors /\ yaml_tree \in validator
    THEN Raised("ValidationFailed", {})
    ELSE
    LET wic == Get(yaml_tree, "wic", Empty)
        r   == IF "backends" \in DOMAIN wic
               THEN read_ast_backends(yaml_tree,
                        InOrder(DOMAIN wic.backends, BackendOrder), Empty, {})
               ELSE read_ast_steps(step_id, yaml_tree, 1, {})
    IN  IF r.err # "" THEN Raised(r.err, r.searched)
        ELSE [err |-> "", tree |-> YamlTree(step_id, r.doc), searched |-> r.searched]

----------------------------------------------------------------------------
(* merge_yml_trees: the Override Merger.                                    *)

\* Python's truth value of a step's value: None and {} are false.
Truthy(v) == v # NoneVal /\ v # Empty

\* Lines 187-194: the per-step block of a tool, without its wic tag.
CltArgs(wic_steps, key) ==
    LET clt_args == Get(wic_steps, key, Empty)
    IN  IF "wic" \in DOMAIN clt_args THEN Del(clt_args, "wic") ELSE clt_args

RECURSIVE merge_yml_trees(_, _, _)

merge_yml_trees(step_id, yaml_tree, wic_parent) ==
    LET wic_self   == [wic |-> Get(yaml_tree, "wic", Empty)]
        wic        == MergeBlock(wic_self, wic_parent)
        tree1      == Put(yaml_tree, "wic", wic.wic)
        wic_steps  == Get(wic.wic, "steps", Empty)
    IN  IF "backends" \in DOMAIN wic.wic
        THEN LET backs == wic.wic.backends
                 merged == [stepid \in DOMAIN backs |->
                              merge_yml_trees(stepid, backs[stepid], wic_parent).doc]
             IN  YamlTree(step_id, [tree1 EXCEPT !.wic.backends = merged])
        ELSE
        LET steps      == tree1.steps
            steps_keys == get_steps_keys(steps)
            subkeys    == get_subkeys(steps_keys, ToolStems)
            merged(j)  ==
                LET step_key == steps_keys[j]
                    val      == steps[j][step_key]
                    key      == StepKeyStr(j - 1, step_key)
                IN  IF step_key \in subkeys
                    THEN LET sub_wic == Get(wic_steps, key, Empty)
                             y_t == YamlTree(StepId(step_key, step_id[2]), val.subtree)
                             sub == merge_yml_trees(y_t.step_id, y_t.doc, sub_wic)
                         IN  Step(step_key, [val EXCEPT !.subtree = sub.doc])
                    ELSE LET sub_yml_tree == CltArgs(wic_steps, key)
                             args_provided_dict_self ==
                                 IF Truthy(val) THEN val ELSE Empty
                         IN  Step(step_key,
                                  MergeBlock(args_provided_dict_self, sub_yml_tree))
        IN  YamlTree(step_id, [tree1 EXCEPT !.steps = [j \in DOMAIN steps |-> merged(j)]])

----------------------------------------------------------------------------
(* get_inlineable_subworkflows: discovery.                                  *)

\* The keys of a resolved backends dict, in the order of the yml file.
BackendIds(backs) ==
    LET names == InOrder({sid[1] : sid \in DOMAIN backs}, BackendOrder)
    IN  [j \in DOMAIN names |-> CHOOSE sid \in DOMAIN backs : sid[1] = names[j]]

\* Line 285: the path of the document itself, when it may be inlined.
OwnPathOfBackendToo(inlineable, namespaces_init, is_backend) ==
    IF inlineable /\ namespaces_init # <<>> THEN <<namespaces_init>> ELSE <<>>

OwnPath(inlineable, namespaces_init, is_backend) ==
    IF inlineable /\ namespaces_init # <<>> /\ ~ is_backend
    THEN <<namespaces_init>> ELSE <<>>

RECURSIVE get_inlineable_subworkflows(_, _, _, _)

get_inlineable_subworkflows(step_id, yaml_tree, is_backend, namespaces_init) ==
    LET yaml_name == step_id[1]
        wic       == Get(yaml_tree, "wic", Empty)
    IN  IF "backends" \in DOMAIN wic
        THEN LET ids == BackendIds(wic.backends)
             IN  flatten([j \in DOMAIN ids |->
                     get_inlineable_subworkflows(ids[j], wic.backends[ids[j]],
                                                 TRUE, namespaces_init)])
        ELSE
        LET steps      == yaml_tree.steps
            steps_keys == get_steps_keys(steps)
            subkeys    == get_subkeys(steps_keys, ToolStems)
            inlineable == Get(wic, "inlineable", TRUE)
            namespaces == OwnPath(inlineable, namespaces_init, is_backend)
            sub(j) ==
                LET step_key    == steps_keys[j]
                    yaml_stem   == PathStem(yaml_name)
                    step_name_i == step_name_str(yaml_stem, j - 1, step_key)
                IN  IF step_key \in subkeys
                    THEN get_inlineable_subworkflows(
                             StepId(step_key, step_id[2]), steps[j][step_key].subtree,
                             FALSE, namespaces_init \o <<step_name_i>>)
                    ELSE <<>>
        IN  namespaces \o flatten([j \in DOMAIN steps |-> sub(j)])

----------------------------------------------------------------------------
(* apply_args: the parent's arguments applied to the ~ call sites.          *)

\* Lines 426-434 for one step and one argument of the parent.
ApplyArgToStepInOnly(val, argkey, argval) ==
    LET in_own == Get(val, "in", Empty)
    IN  IF in_own # Empty
        THEN [val EXCEPT !.in =
                 [k \in DOMAIN in_own |->
                     IF in_own[k] = "~" \o argkey THEN argval ELSE in_own[k]]]
        ELSE val

ApplyArgToStep(val, argkey, argval) ==
    LET subst(in_step) ==
            [k \in DOMAIN in_step |->
                IF in_step[k] = "~" \o argkey THEN argval ELSE in_step[k]]
        in_own == Get(val, "in", Empty)
    IN  IF in_own # Empty
        THEN [val EXCEPT !.in = subst(in_own)]
        ELSE IF "in" \in DOMAIN Get(val, "parentargs", Empty)
        THEN [val EXCEPT !.parentargs.in = subst(val.parentargs.in)]
        ELSE val

\* Lines 415-434, for the arguments argkeys (in the order of the parent's
\* in: mapping).  Returns the body as it is when the loop ends or raises.
RECURSIVE ApplyArgsLoop(_, _, _, _)
ApplyArgsLoop(sub_yml_tree, inputs_workflow, args, argkeys) ==
    IF argkeys = <<>> THEN [err |-> "", doc |-> sub_yml_tree]
    ELSE
    LET argkey     == Head(argkeys)
        steps      == sub_yml_tree.steps
        steps_keys == get_steps_keys(steps)
    IN  IF argkey \notin DOMAIN inputs_workflow
        THEN [err |-> "UnknownFormalParam", doc |-> sub_yml_tree]
        ELSE IF \E j \in DOMAIN steps : steps[j][steps_keys[j]] = NoneVal
        THEN [err |-> "AttributeError", doc |-> sub_yml_tree]
        ELSE ApplyArgsLoop(
                 [sub_yml_tree EXCEPT !.steps =
                     [j \in DOMAIN steps |->
                         Step(steps_keys[j],
                              ApplyArgToStep(steps[j][steps_keys[j]], argkey,
                                             args[argkey]))]],
                 inputs_workflow, args, Tail(argkeys))

\* Lines 400-401: the body without its inputs block.
KeepInputs(sub_yml_tree) == sub_yml_tree

WithoutInputs(sub_yml_tree) ==
    IF "inputs" \in DOMAIN sub_yml_tree
    THEN Del(sub_yml_tree, "inputs") ELSE sub_yml_tree

apply_args(sub_yml_tree, sub_parentargs) ==
    LET inputs_workflow == Get(sub_yml_tree, "inputs", Empty)
        body == WithoutInputs(sub_yml_tree)
        args == Get(sub_parentargs, "in", Empty)
    IN  IF "steps" \notin DOMAIN body
        THEN [err |-> "KeyError", doc |-> body]
        ELSE ApplyArgsLoop(body, inputs_workflow, args,
                           InOrder(DOMAIN args, in_order))

----------------------------------------------------------------------------
(* inline_subworkflow_wic_tag: the wic tags of an inlined subworkflow.      *)

\* Line 474: the wic steps of the inlined subworkflow, moved to the
\* positions its steps take in the parent.
SubStepsReindexed(sub_wic, sub_index) ==
    reindex_wic_steps(Get(Get(sub_wic, "wic", Empty), "steps", Empty),
                      1, sub_index)

\* Lines 482-485: the wic steps of the parent (the subworkflow's own key
\* deleted), the steps behind the subworkflow moved by len_substeps - 1.
ParentStepsReindexedByLen(parent_steps, sub_index, len_substeps) ==
    reindex_wic_steps(parent_steps, sub_index + 1, len_substeps)

ParentStepsReindexed(parent_steps, sub_index, len_substeps) ==
    reindex_wic_steps(parent_steps, sub_index + 1, len_substeps - 1)

\* Lines 467-492: the node of the wic tag that holds the inlined
\* subworkflow's parent, rewritten.
InlineWicNode(sub_wic_parent, sub_index, sub_step_name, len_substeps) ==
    LET key     == StepKeyStr(sub_index, sub_step_name)
        psteps  == sub_wic_parent.wic.steps
        sub_wic == Get(psteps, key, Empty)
        sub_wic_steps_reindexed == SubStepsReindexed(sub_wic, sub_index)
        deleted == IF key \in DOMAIN psteps THEN Del(psteps, key) ELSE psteps
        sub_wic_parent_steps_reindexed ==
            ParentStepsReindexed(deleted, sub_index, len_substeps)
    IN  [sub_wic_parent EXCEPT !.wic.steps =
            MergeWicSteps(sub_wic_steps_reindexed, sub_wic_parent_steps_reindexed)]

\* Lines 455-465: the walk down the wic tag along the path; a node without
\* wic steps on the way leaves the tag as it is.
RECURSIVE InlineWicWalk(_, _, _)
InlineWicWalk(node, step_ints_names, len_substeps) ==
    IF Len(step_ints_names) = 1
    THEN InlineWicNode(node, step_ints_names[1][1], step_ints_names[1][2],
                       len_substeps)
    ELSE
    LET key   == StepKeyStr(step_ints_names[1][1], step_ints_names[1][2])
        child == Get(Get(Get(node, "wic", Empty), "steps", Empty), key, Empty)
    IN  IF "steps" \notin DOMAIN Get(child, "wic", Empty)
        THEN node
        ELSE [node EXCEPT !.wic.steps[key] =
                 InlineWicWalk(child, Tail(step_ints_names), len_substeps)]

inline_subworkflow_wic_tag(wic_tag, namespaces, len_substeps) ==
    LET step_ints_names ==
            [j \in DOMAIN namespaces |->
                <<parse_step_name_str(namespaces[j])[2],
                  parse_step_name_str(namespaces[j])[3]>>]
    IN  InlineWicWalk(wic_tag, step_ints_names, len_substeps).wic

----------------------------------------------------------------------------
(* inline_subworkflow: the structural inliner.                              *)

\* utils.extract_backend(yaml_tree, wic, Path('')): the name and the body of
\* the backend it selects.  It is given the document and its wic tag only.
extract_backend(yaml_tree, wic) ==
    LET stepid == CHOOSE sid \in DOMAIN wic.backends : sid[1] = backend
    IN  <<backend, wic.backends[stepid]>>

\* Line 313: the call works on a deep copy of its argument, so the argument
\* is after the call what it was before, whatever became of the copy.
ArgumentAfterNoCopy(yaml_tree_tuple, working) == working

ArgumentAfter(yaml_tree_tuple, working) == yaml_tree_tuple

\* Lines 351-357: the steps of the parent with step i (0-based) replaced by
\* the steps of the subworkflow.
SpliceKeepingStep(steps, i, sub_steps) ==
    SubSeq(steps, 1, i + 1) \o sub_steps \o SubSeq(steps, i + 2, Len(steps))

Splice(steps, i, sub_steps) ==
    LET steps_inits == SubSeq(steps, 1, i)
        steps_tails == SubSeq(steps, i + 2, Len(steps))
    IN  steps_inits \o sub_steps \o steps_tails

RaisedIn(kind, work) == [err |-> kind, tree |-> Empty, len |-> 0, work |-> work]

\* Lines 362-377: the wic tag of the subworkflow, merged with the parent's
\* overloads, is stored under the subworkflow's key in the parent's wic tag.
StoreSubWic(wic, key, sub_yml_tree) ==
    LET wsteps == Get(wic, "steps", Empty)
        block  == Get(wsteps, key, Empty)
        parent_wic_tag == Get(block, "wic", Empty)
        sub_wic_tag    == Get(sub_yml_tree, "wic", Empty)
    IN  Put(wic, "steps",
            Put(wsteps, key,
                Put(block, "wic", MergeWic(sub_wic_tag, parent_wic_tag))))

RECURSIVE InlineWork(_, _, _)
RECURSIVE InlineBackends(_, _, _, _, _)

\* Lines 325-330: the path is passed to every backend in turn.
InlineBackends(step_id, yaml_tree, ids, done, namespaces) ==
    IF ids = <<>>
    THEN LET new == [yaml_tree EXCEPT !.wic.backends = done]
         IN  [err |-> "", tree |-> YamlTree(step_id, new), len |-> 0, work |-> new]
    ELSE LET r == InlineWork(Head(ids), yaml_tree.wic.backends[Head(ids)], namespaces)
         IN  IF r.err # "" THEN RaisedIn(r.err, yaml_tree)
             ELSE InlineBackends(step_id, yaml_tree, Tail(ids),
                                 Put(done, r.tree.step_id, r.tree.doc), namespaces)

\* Lines 313-393, on the copy (step_id, yaml_tree); namespaces is not empty.
\* work is the copy as the call leaves it.
InlineWork(step_id, yaml_tree, namespaces) ==
    LET yaml_name == step_id[1]
        wic       == Get(yaml_tree, "wic", Empty)
    IN  IF "backends" \in DOMAIN wic
        THEN IF Len(namespaces) = 1
             THEN LET picked == extract_backend(yaml_tree, wic)
                  IN  IF "steps" \notin DOMAIN picked[2]
                      THEN RaisedIn("KeyError", yaml_tree)
                      ELSE [err  |-> "",
                            tree |-> YamlTree(StepId(picked[1], step_id[2]),
                                              [steps |-> picked[2].steps]),
                            len  |-> 0,
                            work |-> yaml_tree]
             ELSE InlineBackends(step_id, yaml_tree, BackendIds(wic.backends),
                                 Empty, namespaces)
        ELSE
        LET steps      == yaml_tree.steps
            steps_keys == get_steps_keys(steps)
            yaml_stem  == PathStem(yaml_name)
            step_names == [j \in DOMAIN steps |->
                              step_name_str(yaml_stem, j - 1, steps_keys[j])]
        IN  IF namespaces[1] \notin Range(step_names)
            THEN RaisedIn("NotInStepNames", yaml_tree)
            ELSE
            LET parsed   == parse_step_name_str(namespaces[1])
                i        == parsed[2]
                step_key == parsed[3]
                val      == steps[i + 1][step_key]
                key      == StepKeyStr(i, step_key)
            IN  IF "subtree" \notin DOMAIN val
                THEN RaisedIn("KeyError", yaml_tree)
                ELSE
                LET sub_yml_tree   == val.subtree
                    sub_parentargs == val.parentargs
                IN  IF Len(namespaces) = 1
                    THEN
                    LET applied     == apply_args(sub_yml_tree, sub_parentargs)
                        touched     == [yaml_tree EXCEPT
                                           !.steps[i + 1] =
                                               Step(step_key,
                                                    [val EXCEPT !.subtree = applied.doc])]
                    IN  IF applied.err # "" THEN RaisedIn(applied.err, touched)
                        ELSE
                        LET sub_steps    == applied.doc.steps
                            len_substeps == Len(sub_steps)
                            wic1 == StoreSubWic(wic, key, applied.doc)
                            new  == Put(Put(yaml_tree, "steps",
                                            Splice(steps, i, sub_steps)),
                                        "wic",
                                        inline_subworkflow_wic_tag(
                                            [wic |-> wic1], namespaces, len_substeps))
                        IN  [err |-> "", tree |-> YamlTree(step_id, new),
                             len |-> len_substeps, work |-> new]
                    ELSE
                    LET r == InlineWork(StepId(step_key, step_id[2]), sub_yml_tree,
                                        Tail(namespaces))
                    IN  IF r.err # "" THEN RaisedIn(r.err, yaml_tree)
                        ELSE
                        LET new == Put([yaml_tree EXCEPT
                                           !.steps[i + 1] =
                                               Step(step_key,
                                                    [subtree    |-> r.tree.doc,
                                                     parentargs |-> sub_parentargs])],
                                       "wic",
                                       inline_subworkflow_wic_tag(
                                           [wic |-> wic], namespaces, r.len))
                        IN  [err |-> "", tree |-> YamlTree(step_id, new),
                             len |-> r.len, work |-> new]

\* inline_subworkflow(yaml_tree_tuple, namespaces): what it returns (tree,
\* len) or raises (err), and its argument after the call (arg).
inline_subworkflow(yaml_tree_tuple, namespaces) ==
    IF namespaces = <<>>
    THEN [err |-> "", tree |-> yaml_tree_tuple, len |-> 0, arg |-> yaml_tree_tuple]
    ELSE LET r == InlineWork(yaml_tree_tuple.step_id, yaml_tree_tuple.doc, namespaces)
         IN  [err |-> r.err, tree |-> r.tree, len |-> r.len,
              arg |-> ArgumentAfter(yaml_tree_tuple,
                                    YamlTree(yaml_tree_tuple.step_id, r.work))]

----------------------------------------------------------------------------
(* The driver.                                                              *)

NoCall == [path |-> <<>>, before |-> Empty, after |-> Empty, ret |-> Empty,
           len |-> 0, err |-> ""]

InitRoot(doc) ==
    /\ pc = "read"
    /\ raw = doc
    /\ tree = YamlTree(StepId("R", "global"), doc)
    /\ searched = {}
    /\ paths = <<>>
    /\ call = NoCall
    /\ aa = Empty
    /\ ms = Empty
    /\ cw = Empty
    /\ rd = Empty

Init ==
    /\ \E shape \in 1..4, rns \in {"", "N"}, sns \in {"", "N"}, inl \in BOOLEAN,
          pargs \in ParentArgs, targs \in ToolArgs :
          InitRoot(RootDoc(shape, rns, sns, inl, pargs, targs))
    /\ validator \in {{}, {DocT}}
    /\ ignore_validation_errors \in BOOLEAN
    /\ backend \in {"b1", "b2"}
    /\ in_order = <<"x", "y", "z">>

Resolve ==
    /\ pc = "read"
    /\ LET r == read_ast_from_disk(tree.step_id, tree.doc)
       IN  /\ searched' = r.searched
           /\ IF r.err # ""
              THEN pc' = r.err /\ UNCHANGED tree
              ELSE pc' = "resolved" /\ tree' = r.tree
    /\ UNCHANGED <<raw, validator, ignore_validation_errors, paths, call, backend,
                   in_order, aa, ms, cw,
                   rd>>

Merge ==
    /\ pc = "resolved"
    /\ tree' = merge_yml_trees(tree.step_id, tree.doc, Empty)
    /\ pc' = "merged"
    /\ UNCHANGED <<raw, validator, ignore_validation_errors, searched, paths, call,
                   backend, in_order, aa, ms, cw,
                   rd>>

Discover ==
    /\ pc \in {"merged", "inlined"}
    /\ paths' = get_inlineable_subworkflows(tree.step_id, tree.doc, FALSE, <<>>)
    /\ pc' = "discovered"
    /\ UNCHANGED <<raw, tree, validator, ignore_validation_errors, searched, call,
                   backend, in_order, aa, ms, cw,
                   rd>>

\* The paths the driver may hand to inline_subworkflow: the discovered ones,
\* the empty one, and ones no discovery returns (a backend's name, a tool
\* step, a step that does not exist).
OtherPaths ==
    { <<>>, <<PlainName("b1")>>, <<PlainName("b2")>>,
      <<step_name_str("R", 0, "A")>>, <<step_name_str("R", 4, "S.yml")>> }

Inline ==
    /\ pc = "discovered"
    /\ \E namespaces \in Range(paths) \cup OtherPaths :
          LET r == inline_subworkflow(tree, namespaces)
          IN  /\ call' = [path |-> namespaces, before |-> tree, after |-> r.arg,
                          ret |-> r.tree, len |-> r.len, err |-> r.err]
              /\ tree' = r.arg
    /\ pc' = "called"
    /\ UNCHANGED <<raw, validator, ignore_validation_errors, searched, paths, backend,
                   in_order, aa, ms, cw,
                   rd>>

\* The driver goes on with the document the call returned.
Adopt ==
    /\ pc = "called"
    /\ call.err = ""
    /\ tree' = call.ret
    /\ pc' = "inlined"
    /\ UNCHANGED <<raw, validator, ignore_validation_errors, searched, paths, call,
                   backend, in_order, aa, ms, cw,
                   rd>>

Next == Resolve \/ Merge \/ Discover \/ Inline \/ Adopt

Spec == Init /\ [][Next]_vars

----------------------------------------------------------------------------
(* The Resolver's output shape.                                             *)

\* Whether the document resolved is what read_ast_from_disk makes of the
\* document given: the same steps with the same keys in the same order, a
\* tool step's value as given, a subworkflow step's value a dict of exactly
\* subtree and parentargs whose subtree is what the resolver makes of a
\* document the catalog holds under the step's stem.
RECURSIVE ResolvedFrom(_, _)

ResolvedFrom(given, resolved) ==
    IF "backends" \in DOMAIN Get(given, "wic", Empty)
    THEN LET gb == given.wic.backends
             rb == resolved.wic.backends
         IN  /\ {sid[1] : sid \in DOMAIN rb} = DOMAIN gb
             /\ \A sid \in DOMAIN rb : ResolvedFrom(gb[sid[1]], rb[sid])
    ELSE /\ Len(resolved.steps) = Len(given.steps)
         /\ get_steps_keys(resolved.steps) = get_steps_keys(given.steps)
         /\ \A j \in DOMAIN given.steps :
               LET k   == get_steps_keys(given.steps)[j]
                   val == resolved.steps[j][k]
               IN  IF PathStem(k) \in ToolStems
                   THEN val = given.steps[j][k]
                   ELSE /\ DOMAIN val = {"subtree", "parentargs"}
                        /\ val.parentargs =
                              (IF given.steps[j][k] = NoneVal
                               THEN Empty ELSE given.steps[j][k])
                        /\ \E ns \in DOMAIN yml_paths :
                              /\ PathStem(k) \in DOMAIN yml_paths[ns]
                              /\ ResolvedFrom(yml_paths[ns][PathStem(k)].doc,
                                              val.subtree)

\* C1: after resolution every subworkflow step's value has exactly the two
\* fields subtree and parentargs, every tool step's value is unchanged, and
\* the steps keep their number, keys and order, in every subtree.
ResolverShape == pc = "resolved" => ResolvedFrom(raw, tree.doc)

\* A resolved root [A, S.yml, B] whose S.yml was given arguments, and whose
\* subtree holds the resolved T.yml in turn.
ResolverShapeWitness ==
    /\ pc = "resolved"
    /\ "steps" \in DOMAIN raw
    /\ Len(raw.steps) = 3
    /\ "S.yml" \in DOMAIN raw.steps[2]
    /\ raw.steps[2]["S.yml"] # NoneVal
    /\ tree.doc.steps[2]["S.yml"].parentargs = raw.steps[2]["S.yml"]
    /\ Len(tree.doc.steps[2]["S.yml"].subtree.steps) = 3
    /\ DOMAIN tree.doc.steps[2]["S.yml"].subtree.steps[2]["T.yml"]
          = {"subtree", "parentargs"}

----------------------------------------------------------------------------
(* The namespace the Resolver searches.                                     *)

----------------------------------------------------------------------------
(* The Override Merger and the wic key of a tool's arguments.               *)

RECURSIVE ToolsWicFree(_)

\* No tool step of the document, or of any of its subtrees or backends, has
\* a wic key in its arguments.
ToolsWicFree(doc) ==
    IF "backends" \in DOMAIN Get(doc, "wic", Empty)
    THEN \A sid \in DOMAIN doc.wic.backends : ToolsWicFree(doc.wic.backends[sid])
    ELSE \A j \in DOMAIN doc.steps :
            LET k   == get_steps_keys(doc.steps)[j]
                val == doc.steps[j][k]
            IN  IF PathStem(k) \in ToolStems
                THEN "wic" \notin DOMAIN val
                ELSE ToolsWicFree(val.subtree)

\* C3: after the merge no tool step's arguments have a wic key, whatever the
\* per-step block of the parent and the step's own arguments held.
MergedToolsWicFree == pc = "merged" => ToolsWicFree(tree.doc)

----------------------------------------------------------------------------
(* The structural inliner: what one call does.                              *)

WicSteps(doc) == Get(Get(doc, "wic", Empty), "steps", Empty)

HasBackends(doc) == "backends" \in DOMAIN Get(doc, "wic", Empty)

RECURSIVE PlainRoute(_, _)
RECURSIVE DocAt(_, _)

\* The path leads from doc through documents without backends, each element
\* naming a subworkflow step of the document reached so far.
PlainRoute(doc, path) ==
    \/ path = <<>>
    \/ /\ ~ HasBackends(doc)
       /\ IsStepName(Head(path))
       /\ LET p == parse_step_name_str(Head(path))
          IN  /\ p[2] + 1 \in DOMAIN doc.steps
              /\ p[3] \in DOMAIN doc.steps[p[2] + 1]
              /\ "subtree" \in DOMAIN doc.steps[p[2] + 1][p[3]]
              /\ PlainRoute(doc.steps[p[2] + 1][p[3]].subtree, Tail(path))

\* The document a plain route leads to.
DocAt(doc, path) ==
    IF path = <<>> THEN doc
    ELSE LET p == parse_step_name_str(Head(path))
         IN  DocAt(doc.steps[p[2] + 1][p[3]].subtree, Tail(path))

\* A call of inline_subworkflow that returned, with a path that leads through
\* documents without backends to the subworkflow inlined.
Spliced ==
    /\ pc = "called"
    /\ call.err = ""
    /\ call.path # <<>>
    /\ PlainRoute(call.before.doc, call.path)

CallPrefix == SubSeq(call.path, 1, Len(call.path) - 1)
CallIndex  == parse_step_name_str(call.path[Len(call.path)])[2]
CallKey    == parse_step_name_str(call.path[Len(call.path)])[3]
\* The parent of the subworkflow inlined, before and after the call.
ParentBefore == DocAt(call.before.doc, CallPrefix)
ParentAfter  == DocAt(call.ret.doc, CallPrefix)
\* The step that refers to the subworkflow inlined.
CallStep == ParentBefore.steps[CallIndex + 1][CallKey]

\* C4: a path of length one on a document without backends that names step
\* i (0-based) returns the steps before i, then the steps of the subworkflow
\* body after argument application, then the steps after i; the length
\* returned is the number L of body steps, and the result has L - 1 steps
\* more than the input, also when L = 0.
SpliceIsPrefixBodySuffix ==
    (Spliced /\ Len(call.path) = 1) =>
        LET i     == CallIndex
            old   == call.before.doc.steps
            new   == call.ret.doc.steps
            body  == apply_args(CallStep.subtree, CallStep.parentargs).doc.steps
            L     == Len(body)
        IN  /\ call.len = L
            /\ Len(new) = Len(old) + L - 1
            /\ \A j \in 1..i : new[j] = old[j]
            /\ \A j \in 1..L : new[i + j] = body[j]
            /\ \A j \in (i + 2)..Len(old) : new[j + L - 1] = old[j]

\* The empty body Z.yml inlined at the head of [Z.yml, S.yml, B].
SpliceEmptyBodyWitness ==
    /\ Spliced
    /\ Len(call.path) = 1
    /\ CallKey = "Z.yml"
    /\ call.len = 0
    /\ Len(call.before.doc.steps) = 3
    /\ Len(call.ret.doc.steps) = 2

\* C5: when the subworkflow at position i of a parent is inlined with L body
\* steps, the parent's wic steps keys (m, k) with m > i + 1 become
\* (m + L - 1, k), those with m < i + 1 stay, the key (i + 1, k) of the
\* subworkflow is gone, and the values under the renamed keys are unchanged.
ParentMetaReindexed ==
    Spliced =>
        LET i    == CallIndex
            L    == call.len
            old  == WicSteps(ParentBefore)
            new  == WicSteps(ParentAfter)
        IN  /\ \A key \in DOMAIN old :
                  /\ key[1] > i + 1 =>
                        /\ <<key[1] + L - 1, key[2]>> \in DOMAIN new
                        /\ new[<<key[1] + L - 1, key[2]>>] = old[key]
                  /\ key[1] < i + 1 =>
                        /\ key \in DOMAIN new
                        /\ new[key] = old[key]
            /\ <<i + 1, CallKey>> \notin DOMAIN new

\* S.yml with three body steps inlined at position 1 of [A, S.yml, B]: the
\* parent's key (3, B) becomes (5, B), and (2, S.yml) is gone.
ParentMetaReindexedWitness ==
    /\ Spliced
    /\ CallIndex = 1
    /\ call.len = 3
    /\ <<2, "S.yml">> \in DOMAIN WicSteps(ParentBefore)
    /\ <<3, "B">> \in DOMAIN WicSteps(ParentBefore)
    /\ <<5, "B">> \in DOMAIN WicSteps(ParentAfter)
    /\ <<3, "B">> \notin DOMAIN WicSteps(ParentAfter)

RECURSIVE AlignedDocs(_)

\* Every key (m, k) of the wic steps of the document, and of every document
\* in its subtrees and backends, names the step at position m.
AlignedDocs(doc) ==
    IF HasBackends(doc)
    THEN \A sid \in DOMAIN doc.wic.backends : AlignedDocs(doc.wic.backends[sid])
    ELSE /\ \A key \in DOMAIN WicSteps(doc) :
               key[1] \in DOMAIN doc.steps /\ key[2] \in DOMAIN doc.steps[key[1]]
         /\ \A j \in DOMAIN doc.steps :
               LET val == doc.steps[j][get_steps_keys(doc.steps)[j]]
               IN  "subtree" \in DOMAIN val => AlignedDocs(val.subtree)

\* C6: on aligned input every sequence of inlines on discovered paths leaves
\* the wic steps of every document aligned with its steps, and each key
\* (j + 1, kj) of the subworkflow's own wic steps reappears in the parent as
\* (i + j + 1, kj).
InlinePreservesAlignment ==
    /\ pc \in {"merged", "discovered", "called", "inlined"} => AlignedDocs(tree.doc)
    /\ (pc = "called" /\ call.err = "") => AlignedDocs(call.ret.doc)
    /\ Spliced =>
          \A key \in DOMAIN WicSteps(CallStep.subtree) :
              <<CallIndex + key[1], key[2]>> \in DOMAIN WicSteps(ParentAfter)

RECURSIVE KeyTree(_)

\* The keys of wic steps, with the keys of the wic steps nested under each.
KeyTree(wic_steps) ==
    [key \in DOMAIN wic_steps |-> KeyTree(WicSteps(wic_steps[key]))]

\* A call that returned, whose path leads through documents without
\* backends to a document with backends and names a step of a backend of
\* it: the nested call extracts a backend.
ExtractedBelow ==
    /\ pc = "called"
    /\ call.err = ""
    /\ Len(call.path) >= 2
    /\ PlainRoute(call.before.doc, CallPrefix)
    /\ HasBackends(ParentBefore)

\* C11: when the nested call extracts a backend and the length returned is
\* 0, every ancestor on the path keeps the keys of its wic steps, and of the
\* wic steps nested under them for its descendants, as they were.
ExtractionKeepsAncestorKeys ==
    (ExtractedBelow /\ call.len = 0) =>
        \A n \in 0..(Len(call.path) - 2) :
            KeyTree(WicSteps(DocAt(call.ret.doc, SubSeq(call.path, 1, n))))
                = KeyTree(WicSteps(DocAt(call.before.doc, SubSeq(call.path, 1, n))))

\* C10: a path of length one that names a backend, against a document that
\* declares backends, returns the body of the backend it names, and the
\* length 0.
BackendChoiceFollowsPath ==
    (/\ pc = "called"
     /\ Len(call.path) = 1
     /\ HasBackends(call.before.doc)
     /\ \E sid \in DOMAIN call.before.doc.wic.backends :
           call.path[1] = PlainName(sid[1]))
    => /\ call.err = ""
       /\ call.len = 0
       /\ \A sid \in DOMAIN call.before.doc.wic.backends :
             call.path[1] = PlainName(sid[1]) =>
                 call.ret.doc = [steps |-> call.before.doc.wic.backends[sid].steps]

----------------------------------------------------------------------------
(* apply_args on its own: bodies and arguments of every shape, applied once *)
(* and then once more to the result.                                        *)

Formals == {"x", "y"}

\* What a call site may hold: a reference to a formal, or a constant.
SiteValues == {"~x", "~y", "c"}

\* What the parent may supply: a constant, or a reference to a formal of
\* its own (which may have the name of one of the body's formals).
ArgValues == {"42", "~x", "~y", "~w"}

\* A body with a tool step, a nested subworkflow step and a tool step
\* without arguments; ins = {} stands for a body without inputs block.
Body(ins, v1, v2, v3) ==
    (IF ins = {} THEN Empty ELSE [inputs |-> [n \in ins |-> "string"]]) @@
    [steps |-> << Step("A", [in |-> [p |-> v1, q |-> v2]]),
                  Step("T.yml", [subtree |-> DocZ,
                                 parentargs |-> [in |-> [z |-> v3]]]),
                  Step("B", Empty) >>]

Bodies ==
    { Body(ins, v1, v2, v3) :
        ins \in {{}, {"x"}, {"x", "y"}},
        v1 \in SiteValues, v2 \in SiteValues, v3 \in SiteValues }

AllParentArgs ==
    {Empty} \cup
    { [in |-> d] : d \in UNION { [ks -> ArgValues] : ks \in (SUBSET Formals) \ {{}} } }

NoResult == [err |-> "", doc |-> Empty]

InitApply ==
    /\ pc = "apply"
    /\ raw = Empty
    /\ tree = YamlTree(StepId("R", "global"), Empty)
    /\ validator = {}
    /\ ignore_validation_errors = FALSE
    /\ searched = {}
    /\ paths = <<>>
    /\ call = NoCall
    /\ backend = "b1"
    /\ in_order \in {<<"x", "y">>, <<"y", "x">>}
    /\ \E body \in Bodies, pargs \in AllParentArgs :
          aa = [phase |-> "given", body |-> body, pargs |-> pargs,
                once |-> NoResult, twice |-> NoResult]
    /\ ms = Empty
    /\ cw = Empty
    /\ rd = Empty

ApplyOnce ==
    /\ pc = "apply"
    /\ aa.phase = "given"
    /\ aa' = [aa EXCEPT !.phase = "once",
                        !.once = apply_args(aa.body, aa.pargs)]
    /\ UNCHANGED <<pc, raw, tree, validator, ignore_validation_errors, searched,
                   paths, call, backend, in_order, ms, cw, rd>>

ApplyTwice ==
    /\ pc = "apply"
    /\ aa.phase = "once"
    /\ aa.once.err = ""
    /\ aa' = [aa EXCEPT !.phase = "twice",
                        !.twice = apply_args(aa.once.doc, aa.pargs)]
    /\ UNCHANGED <<pc, raw, tree, validator, ignore_validation_errors, searched,
                   paths, call, backend, in_order, ms, cw, rd>>

NextApply == ApplyOnce \/ ApplyTwice

SpecApply == InitApply /\ [][NextApply]_vars

\* The first call of apply_args returned.
AppliedOnce == pc = "apply" /\ aa.phase \in {"once", "twice"} /\ aa.once.err = ""

SuppliedArgs == Get(aa.pargs, "in", Empty)

\* The bindings apply_args looks at in a step: parentargs.in for a nested
\* subworkflow step, in: for any other.
Bindings(val) ==
    IF "subtree" \in DOMAIN val
    THEN Get(val.parentargs, "in", Empty) ELSE Get(val, "in", Empty)

\* The postcondition of C8 on the first call.
ArgsApplied ==
    LET formals == DOMAIN Get(aa.body, "inputs", Empty) \cap DOMAIN SuppliedArgs
        old     == aa.body.steps
        new     == aa.once.doc.steps
    IN  /\ "inputs" \notin DOMAIN aa.once.doc
        /\ get_steps_keys(new) = get_steps_keys(old)
        /\ \A j \in DOMAIN old :
              LET k  == get_steps_keys(old)[j]
                  ob == Bindings(old[j][k])
                  nb == Bindings(new[j][k])
              IN  /\ DOMAIN nb = DOMAIN ob
                  /\ \A b \in DOMAIN ob :
                        /\ \A n \in formals : nb[b] # "~" \o n
                        /\ IF \E n \in formals : ob[b] = "~" \o n
                           THEN \E n \in formals :
                                   ob[b] = "~" \o n /\ nb[b] = SuppliedArgs[n]
                           ELSE nb[b] = ob[b]

\* C8 as stated: after apply_args no binding of a step equals "~name" for a
\* formal the parent supplies, every such binding holds the supplied value,
\* every other binding is unchanged and the body has no inputs block.
ApplyArgsPostcondition == AppliedOnce => ArgsApplied

\* No supplied value is itself the reference "~g" to a supplied formal g.
NoChainedArgs ==
    \A f \in DOMAIN SuppliedArgs, g \in DOMAIN SuppliedArgs :
        SuppliedArgs[f] # "~" \o g

\* C8, amended: the postcondition holds when no supplied value is itself
\* "~g" for a supplied formal g.
ApplyArgsPostconditionUnchained == (AppliedOnce /\ NoChainedArgs) => ArgsApplied

\* Both formals supplied with unchained values: a reference in a tool step and one
\* in the nested subworkflow step replaced.
ApplyArgsWitness ==
    /\ AppliedOnce
    /\ NoChainedArgs
    /\ DOMAIN SuppliedArgs = {"x", "y"}
    /\ aa.body.steps[1]["A"]["in"].p = "~x"
    /\ aa.body.steps[2]["T.yml"].parentargs["in"].z = "~y"
    /\ aa.once.doc.steps[1]["A"]["in"].p = SuppliedArgs.x
    /\ aa.once.doc.steps[2]["T.yml"].parentargs["in"].z = SuppliedArgs.y

\* C9 as stated: a second call on the result of a first, with the same
\* parentargs, succeeds and returns an equal body.
ApplyArgsIdempotent ==
    (AppliedOnce /\ aa.phase = "twice") =>
        /\ aa.twice.err = ""
        /\ aa.twice.doc = aa.once.doc

\* C9, amended: the second call succeeds exactly when the parentargs supply
\* no argument, and then returns an equal body; else it fails with
\* UnknownFormalParam, the inputs block being gone after the first call.
ApplyArgsTwice ==
    (AppliedOnce /\ aa.phase = "twice") =>
        /\ aa.twice.err = "" <=> SuppliedArgs = Empty
        /\ aa.twice.err = "" => aa.twice.doc = aa.once.doc
        /\ aa.twice.err # "" => aa.twice.err = "UnknownFormalParam"

\* A second call that fails after a first that replaced a reference, and a
\* body whose formals the parent supplies.
ApplyArgsTwiceWitness ==
    /\ AppliedOnce
    /\ aa.phase = "twice"
    /\ SuppliedArgs = [x |-> "42"]
    /\ aa.body.steps[1]["A"]["in"].p = "~x"
    /\ aa.once.doc.steps[1]["A"]["in"].p = "42"
    /\ aa.twice.err = "UnknownFormalParam"

----------------------------------------------------------------------------
(* Discovery.                                                               *)

RECURSIVE Subworkflows(_, _, _)

\* Every subworkflow of the tree: the path that leads to it, its document,
\* and whether it is a backend body (its immediate parent declares
\* backends).  A backend body has the path of the document that declares it,
\* and its steps are named after the backend.
Subworkflows(stem, doc, prefix) ==
    IF HasBackends(doc)
    THEN UNION { {[path |-> prefix, doc |-> doc.wic.backends[sid], body |-> TRUE]}
                 \cup Subworkflows(sid[1], doc.wic.backends[sid], prefix) :
                 sid \in DOMAIN doc.wic.backends }
    ELSE UNION { LET k   == get_steps_keys(doc.steps)[j]
                     val == doc.steps[j][k]
                     p   == prefix \o <<step_name_str(PathStem(stem), j - 1, k)>>
                 IN  IF "subtree" \in DOMAIN val
                     THEN {[path |-> p, doc |-> val.subtree, body |-> FALSE]}
                          \cup Subworkflows(k, val.subtree, p)
                     ELSE {} :
                 j \in DOMAIN doc.steps }

\* The three conditions of eligibility.
Eligible(e) ==
    /\ Get(Get(e.doc, "wic", Empty), "inlineable", TRUE)
    /\ e.path # <<>>
    /\ ~ e.body

NoPathTwice == \A m, n \in DOMAIN paths : paths[m] = paths[n] => m = n

\* C12 as stated: discovery returns exactly the paths of the subworkflows
\* that may be inlined, are not the root and are no backend body; no path is
\* empty or returned twice, and a second call returns the same list.
DiscoveryReturnsEligible ==
    pc = "discovered" =>
        /\ Range(paths) =
              {e.path : e \in {f \in Subworkflows(tree.step_id[1], tree.doc, <<>>) :
                                  Eligible(f)}}
        /\ <<>> \notin Range(paths)
        /\ NoPathTwice
        /\ get_inlineable_subworkflows(tree.step_id, tree.doc, FALSE, <<>>) = paths

\* C12, amended: discovery returns exactly the paths of the subworkflows
\* that may be inlined, are not the root, are no backend body and declare no
\* backends themselves; no path is empty or returned twice, subworkflows
\* inside backend bodies are returned, and a second call returns the same
\* list.
DiscoveryReturnsEligibleSteps ==
    pc = "discovered" =>
        /\ Range(paths) =
              {e.path : e \in {f \in Subworkflows(tree.step_id[1], tree.doc, <<>>) :
                                  Eligible(f) /\ ~ HasBackends(f.doc)}}
        /\ <<>> \notin Range(paths)
        /\ NoPathTwice
        /\ get_inlineable_subworkflows(tree.step_id, tree.doc, FALSE, <<>>) = paths

\* A root [A, K.yml]: the subworkflows inside the backend b1 of K are
\* returned, K and its backend bodies are not.
DiscoveryWitness ==
    /\ pc = "discovered"
    /\ Len(paths) = 2
    /\ paths[1] = <<step_name_str("R", 1, "K.yml"), step_name_str("b1", 1, "S.yml")>>
    /\ paths[2] = paths[1] \o <<step_name_str("S", 1, "T.yml")>>
    /\ \E e \in Subworkflows(tree.step_id[1], tree.doc, <<>>) :
          e.body /\ e.path = <<step_name_str("R", 1, "K.yml")>>

\* C18: every path discovery returns is accepted by inline_subworkflow on
\* the same tree: the call raises no 'not in step_names' error, and it
\* splices the subworkflow found at that path instead of handing back a
\* backend body of the root.
DiscoveredPathsAccepted ==
    (pc = "called" /\ call.path \in Range(paths)) =>
        /\ call.err # "NotInStepNames"
        /\ ~ HasBackends(call.before.doc)

----------------------------------------------------------------------------
(* move_slash_last.  A str is the sequence of its characters.               *)

Sep == <<"_", "_", "_">>

RECURSIVE ReplaceSlash(_)
RECURSIVE SplitSep(_, _)
RECURSIVE JoinSep(_)

\* source_new.replace('/', '___')
ReplaceSlash(s) ==
    IF s = <<>> THEN <<>>
    ELSE (IF Head(s) = "/" THEN Sep ELSE <<Head(s)>>) \o ReplaceSlash(Tail(s))

\* source_new.split('___'), piece being the characters read since the last
\* separator: the separators are found from the left and do not overlap.
SplitSep(s, piece) ==
    IF s = <<>> THEN <<piece>>
    ELSE IF Len(s) >= 3 /\ SubSeq(s, 1, 3) = Sep
         THEN <<piece>> \o SplitSep(SubSeq(s, 4, Len(s)), <<>>)
         ELSE SplitSep(Tail(s), Append(piece, Head(s)))

\* '___'.join(source_split)
JoinSep(source_split) ==
    IF source_split = <<>> THEN <<>>
    ELSE IF Len(source_split) = 1 THEN source_split[1]
         ELSE source_split[1] \o Sep \o JoinSep(Tail(source_split))

SlashFirst(source_split) ==
    source_split[1] \o <<"/">> \o JoinSep(Tail(source_split))

SlashLast(source_split) ==
    JoinSep(SubSeq(source_split, 1, Len(source_split) - 1))
        \o <<"/">> \o source_split[Len(source_split)]

move_slash_last(source_new) ==
    IF "/" \in Range(source_new)
    THEN SlashLast(SplitSep(ReplaceSlash(source_new), <<>>))
    ELSE source_new

Alphabet == {"a", "_", "/"}

MaxStr == 7

Strs == UNION {[1..n -> Alphabet] : n \in 0..MaxStr}

InitSlash ==
    /\ pc = "slash"
    /\ raw = Empty
    /\ tree = YamlTree(StepId("R", "global"), Empty)
    /\ validator = {}
    /\ ignore_validation_errors = FALSE
    /\ searched = {}
    /\ paths = <<>>
    /\ call = NoCall
    /\ backend = "b1"
    /\ in_order = <<"x", "y">>
    /\ aa = Empty
    /\ \E s \in Strs : ms = [phase |-> "given", s |-> s, out |-> <<>>]
    /\ cw = Empty
    /\ rd = Empty

MoveSlash ==
    /\ pc = "slash"
    /\ ms.phase = "given"
    /\ ms' = [ms EXCEPT !.phase = "moved", !.out = move_slash_last(ms.s)]
    /\ UNCHANGED <<pc, raw, tree, validator, ignore_validation_errors, searched,
                   paths, call, backend, in_order, aa, cw, rd>>

NextSlash == MoveSlash

SpecSlash == InitSlash /\ [][NextSlash]_vars

\* The string has exactly one '/', at position i.
OneSlashAt(s, i) ==
    /\ i \in DOMAIN s
    /\ s[i] = "/"
    /\ \A j \in DOMAIN s : s[j] = "/" => j = i

HasSepWithin(s, from, to) ==
    \E j \in from..(to - 2) : SubSeq(s, j, j + 2) = Sep

\* C16 as stated: a string with exactly one '/' is returned as it is, also
\* when it contains the separator '___' before or after the slash.
OneSlashUnchanged ==
    (ms.phase = "moved" /\ \E i \in DOMAIN ms.s : OneSlashAt(ms.s, i)) =>
        ms.out = ms.s

\* C16, amended: a string with exactly one '/' that is not directly preceded
\* by '_' and has no '___' after the slash is returned as it is, also when
\* '___' occurs before the slash; a string with exactly one '/' and a '___'
\* after it is not returned as it is.
OneSlashUnchangedUnlessSepAfter ==
    ms.phase = "moved" =>
        \A i \in DOMAIN ms.s :
            OneSlashAt(ms.s, i) =>
                /\ ( /\ (i > 1 => ms.s[i - 1] # "_")
                     /\ ~ HasSepWithin(ms.s, i + 1, Len(ms.s)) ) => ms.out = ms.s
                /\ HasSepWithin(ms.s, i + 1, Len(ms.s)) => ms.out # ms.s

\* 'a___a/a' is returned as it is.
OneSlashWitness ==
    /\ ms.phase = "moved"
    /\ ms.s = <<"a">> \o Sep \o <<"a", "/", "a">>
    /\ ms.out = ms.s

----------------------------------------------------------------------------
(* Compiled graphs.  A dict whose order of insertion matters is the         *)
(* sequence of its <<key, value>> items; a str is the sequence of its       *)
(* characters, keys included; a value bound to a port is a str, a Dict or   *)
(* a list.                                                                  *)

OKeys(d) == [i \in DOMAIN d |-> d[i][1]]

OHas(d, k) == \E i \in DOMAIN d : d[i][1] = k

OGet(d, k) == d[CHOOSE i \in DOMAIN d : d[i][1] = k][2]

\* d[k] = v
OPut(d, k, v) ==
    IF OHas(d, k)
    THEN [i \in DOMAIN d |-> IF d[i][1] = k THEN <<k, v>> ELSE d[i]]
    ELSE Append(d, <<k, v>>)

\* F(v), v being evaluated once: one statement after another.
Bind(v, F(_)) == CHOOSE r \in {F(x) : x \in {v}} : TRUE

RECURSIVE OUpdate(_, _)

\* d.update(e)
OUpdate(d, e) ==
    IF e = <<>> THEN d
    ELSE Bind(OPut(d, e[1][1], e[1][2]), LAMBDA put : OUpdate(put, Tail(e)))

StrVal(s)   == [str |-> s]
DictVal(d)  == [dict |-> d]
ListVal(l)  == [list |-> l]

IsStr(v)  == "str" \in DOMAIN v
IsDict(v) == "dict" \in DOMAIN v

RECURSIVE Concat(_)

Concat(ss) == IF ss = <<>> THEN <<>> ELSE Head(ss) \o Concat(Tail(ss))

\* str(newval), as far as the characters of the strs in it go: the quotes,
\* braces and field names of a Dict are left out, the brackets of a list
\* are kept.
StrOf(newval) ==
    IF IsStr(newval) THEN newval.str
    ELSE IF IsDict(newval)
         THEN Get(newval.dict, "source", <<>>) \o <<"'">>
                  \o Get(newval.dict, "valueFrom", <<>>)
         ELSE <<"[">> \o Concat(newval.list) \o <<"]">>

InputsDot == <<"[", "i", "n", "p", "u", "t", "s", ".">>

\* re.match(r'.*\[inputs\.(.*)\].*', s): the group, when s matches.  Both
\* .* before the group and the group are greedy: the group starts after the
\* last '[inputs.' that has a ']' after it and ends before the last ']'.
ReMatches(s) ==
    \E i \in DOMAIN s, j \in DOMAIN s :
        i + 7 < j /\ SubSeq(s, i, i + 7) = InputsDot /\ s[j] = "]"

ReGroup(s) ==
    LET j == CHOOSE j \in DOMAIN s : s[j] = "]" /\ \A m \in DOMAIN s : s[m] = "]" => m <= j
        i == CHOOSE i \in DOMAIN s :
                 /\ i + 7 < j /\ SubSeq(s, i, i + 7) = InputsDot
                 /\ \A m \in DOMAIN s :
                        (m + 7 < j /\ SubSeq(s, m, m + 7) = InputsDot) => m <= i
    IN  SubSeq(s, i + 8, j - 1)

----------------------------------------------------------------------------
(* inline_subworkflow_cwl.  The loops of the function are folds over a      *)
(* record st of what they read and write:                                   *)
(*   err        the exception raised, "" while there is none                *)
(*   bound      whether the local variable source has been assigned         *)
(*   source     the local variable source                                   *)
(*   inputs     steps[step_key]['in'], whose Dicts line 585 writes to       *)
(*   substepval the sub-step being rewritten                                *)
(*   substep_inputs_new, sub_steps_new, steps_new, count                    *)

\* lines 562-570: by default, copy the input and prepend the namespace.
\* The Dict case writes to subinputval, which the scatter test reads later.
DefaultBinding(step_key, subinputkey, subinputval, st) ==
    IF IsStr(subinputval)
    THEN [st EXCEPT !.bound = TRUE,
                    !.source = move_slash_last(subinputval.str),
                    !.substep_inputs_new =
                        OPut(@, subinputkey, StrVal(step_key \o Sep \o subinputval.str))]
    ELSE IF IsDict(subinputval)
    THEN IF "source" \notin DOMAIN subinputval.dict
         THEN [st EXCEPT !.err = "KeyError"]
         ELSE LET source_new == move_slash_last(subinputval.dict.source)
                  written    == DictVal([subinputval.dict EXCEPT
                                            !.source = step_key \o Sep \o source_new])
              IN  [st EXCEPT !.bound = TRUE,
                             !.source = subinputval.dict.source,
                             !.subinputval = written,
                             !.substep_inputs_new = OPut(@, subinputkey, written)]
    ELSE st

\* lines 575-585: the actual parameter, flattened and not namespaced.
Actual(newval) ==
    IF IsStr(newval) THEN StrVal(move_slash_last(newval.str))
    ELSE IF IsDict(newval) /\ "source" \in DOMAIN newval.dict
         THEN DictVal([newval.dict EXCEPT !.source = move_slash_last(@)])
         ELSE newval

\* lines 595-599: a variable of the parent's scatter joins the sub-step's.
ScatterAlso(substepval, name) ==
    IF "scatter" \in DOMAIN substepval
    THEN [substepval EXCEPT !.scatter = Append(@, name)]
    ELSE substepval @@ [scatter |-> <<name>>]

\* lines 590-599: copy the input variable the actual parameter refers to.
CopyReferenced(scattervars, newval, st) ==
    IF ~ ReMatches(StrOf(newval)) THEN st
    ELSE LET inputvarname == ReGroup(StrOf(newval))
         IN  IF inputvarname = <<>> THEN st
             ELSE IF ~ OHas(st.inputs, inputvarname)
                  THEN [st EXCEPT !.err = "KeyError"]
                  ELSE [st EXCEPT
                           !.substep_inputs_new =
                               OPut(@, inputvarname, OGet(st.inputs, inputvarname)),
                           !.substepval =
                               IF inputvarname \in Range(scattervars)
                               THEN ScatterAlso(@, inputvarname) ELSE @]

\* lines 575-587: the binding is overwritten; a Dict of inputs is written
\* to where it is.
Overwritten(subinputkey, newval, st) ==
    [st EXCEPT !.inputs = IF IsDict(newval) THEN OPut(@, st.source, newval) ELSE @,
               !.substep_inputs_new = OPut(@, subinputkey, newval)]

\* lines 572-599: replace the formal parameter by the actual parameter.
Substitute(scattervars, subinputkey, st) ==
    IF ~ st.bound THEN [st EXCEPT !.err = "UnboundLocalError"]
    ELSE IF ~ OHas(st.inputs, st.source) THEN st
    ELSE Bind(Actual(OGet(st.inputs, st.source)), LAMBDA newval :
             Bind(Overwritten(subinputkey, newval, st), LAMBDA written :
                 CopyReferenced(scattervars, newval, written)))

CrossStepAlways(subinputval) == TRUE

\* lines 609-610: the sub-step's own binding holds a '/'.
CrossStep(subinputval) ==
    \/ IsStr(subinputval) /\ "/" \in Range(subinputval.str)
    \/ IsDict(subinputval) /\ "/" \in Range(subinputval.dict.source)


\* lines 608-616: distribute scatter across the subworkflow's dependencies.
Distribute(scattervars, subinputkey, st) ==
    IF scattervars # <<>> /\ CrossStep(st.subinputval)
    THEN LET substepval == st.substepval
             scattered  ==
                 IF "scatter" \in DOMAIN substepval
                 THEN IF subinputkey \notin Range(substepval.scatter)
                      THEN [substepval EXCEPT !.scatter = Append(@, subinputkey)]
                      ELSE substepval
                 ELSE substepval @@ [scatter |-> <<subinputkey>>]
         IN  [st EXCEPT !.substepval =
                 [k \in DOMAIN scattered \cup {"scatterMethod"} |->
                     IF k = "scatterMethod" THEN "dotproduct" ELSE scattered[k]]]
    ELSE st

RECURSIVE InputsLoop(_, _, _, _)

\* lines 562-616: one port of a sub-step.
Port(step_key, scattervars, subinputkey, subinputval, st) ==
    Bind(DefaultBinding(step_key, subinputkey, subinputval,
                        [st EXCEPT !.subinputval = subinputval]),
         LAMBDA bound :
             IF bound.err # "" THEN bound
             ELSE Bind(Substitute(scattervars, subinputkey, bound),
                       LAMBDA replaced :
                           IF replaced.err # "" THEN replaced
                           ELSE Distribute(scattervars, subinputkey, replaced)))

\* lines 560-616: for subinputkey, subinputval in substep_inputs.items()
InputsLoop(step_key, scattervars, substep_inputs, st) ==
    IF substep_inputs = <<>> \/ st.err # "" THEN st
    ELSE Bind(Port(step_key, scattervars, substep_inputs[1][1],
                   substep_inputs[1][2], st),
              LAMBDA done :
                  InputsLoop(step_key, scattervars, Tail(substep_inputs), done))

DotDotSlash == <<".", ".", "/">>

\* lines 622-624: modify the run tag.
RunTag(runstr) ==
    IF Len(runstr) >= 3 /\ SubSeq(runstr, 1, 3) = DotDotSlash
    THEN SubSeq(runstr, 4, Len(runstr)) ELSE runstr

WithField(d, k, v) == [x \in DOMAIN d \cup {k} |-> IF x = k THEN v ELSE d[x]]

NamespacedBare(step_key, substepkey) == substepkey

\* line 628: prepend namespace to step names.
Namespaced(step_key, substepkey) == step_key \o Sep \o substepkey

RECURSIVE SubStepsLoop(_, _, _, _)

\* lines 619-629: the inputs and the run tag are overwritten and the
\* sub-step is kept under its namespaced name.
SubStepDone(step_key, substepkey, looped) ==
    IF looped.err # "" THEN looped
    ELSE IF "run" \notin DOMAIN looped.substepval
         THEN [looped EXCEPT !.err = "KeyError"]
         ELSE [looped EXCEPT !.sub_steps_new =
                  OPut(@, Namespaced(step_key, substepkey),
                       [WithField(looped.substepval, "in", looped.substep_inputs_new)
                        EXCEPT !.run = RunTag(@)])]

\* lines 558-629: one step of the subworkflow.
SubStep(step_key, scattervars, substepkey, substepval, st) ==
    IF "in" \notin DOMAIN substepval THEN [st EXCEPT !.err = "KeyError"]
    ELSE Bind([st EXCEPT !.substepval = substepval, !.substep_inputs_new = <<>>],
              LAMBDA entered :
                  Bind(InputsLoop(step_key, scattervars, substepval.in, entered),
                       LAMBDA looped : SubStepDone(step_key, substepkey, looped)))

\* lines 557-629: for substepkey, substepval in sub_steps.items()
SubStepsLoop(step_key, scattervars, sub_steps, st) ==
    IF sub_steps = <<>> \/ st.err # "" THEN st
    ELSE Bind(SubStep(step_key, scattervars, sub_steps[1][1], sub_steps[1][2], st),
              LAMBDA done :
                  SubStepsLoop(step_key, scattervars, Tail(sub_steps), done))

RECURSIVE StepsLoop(_, _, _, _)

\* lines 549-637: one step of the graph, the steps of a subworkflow taking
\* its place.
RootStep(step_key, stepval, subkeysdict, st) ==
    IF ~ OHas(subkeysdict, step_key)
    THEN [st EXCEPT !.steps_new = OPut(@, step_key, stepval)]
    ELSE IF \/ "in" \notin DOMAIN stepval
            \/ "steps" \notin DOMAIN OGet(subkeysdict, step_key)
         THEN [st EXCEPT !.err = "KeyError"]
         ELSE Bind([st EXCEPT !.count = @ + 1, !.inputs = stepval.in,
                              !.sub_steps_new = <<>>],
                   LAMBDA entered :
                       Bind(SubStepsLoop(step_key, Get(stepval, "scatter", <<>>),
                                OGet(subkeysdict, step_key).steps, entered),
                            LAMBDA looped :
                                [looped EXCEPT !.steps_new =
                                    OUpdate(@, looped.sub_steps_new)]))

\* lines 548-637: for i, step_key in enumerate(steps_keys)
StepsLoop(steps, subkeysdict, steps_keys, st) ==
    IF steps_keys = <<>> \/ st.err # "" THEN st
    ELSE Bind(RootStep(Head(steps_keys), OGet(steps, Head(steps_keys)),
                       subkeysdict, st),
              LAMBDA done : StepsLoop(steps, subkeysdict, Tail(steps_keys), done))

OutputAll == <<"o", "u", "t", "p", "u", "t", "_", "a", "l", "l">>

\* 'output_all' in outkey
HasOutputAll(outkey) ==
    \E i \in DOMAIN outkey :
        i + 9 <= Len(outkey) /\ SubSeq(outkey, i, i + 9) = OutputAll

MovedNoSlash(outputSource) == outputSource

\* line 651: move_slash_last(outval['outputSource'])
Moved(outputSource) == move_slash_last(outputSource)

RECURSIVE OutputsLoop(_, _)

\* lines 647-652: for outkey, outval in outputs.items()
OutputsLoop(outputs, outputs_new) ==
    IF outputs = <<>> THEN outputs_new
    ELSE LET outkey == outputs[1][1]
             outval == outputs[1][2]
         IN  IF HasOutputAll(outkey) THEN OutputsLoop(Tail(outputs), outputs_new)
             ELSE Bind(OPut(outputs_new, outkey,
                            [outval EXCEPT !.outputSource = Moved(@)]),
                       LAMBDA put : OutputsLoop(Tail(outputs), put))

\* line 651 raises a KeyError for a kept output without outputSource.
OutputsRaise(outputs) ==
    \E i \in DOMAIN outputs :
        ~ HasOutputAll(outputs[i][1]) /\ "outputSource" \notin DOMAIN outputs[i][2]

RoseTree(data, sub_trees) == [data |-> data, sub_trees |-> sub_trees]

NodeData(namespaces, compiled_cwl) ==
    [namespaces |-> namespaces, compiled_cwl |-> compiled_cwl]

RECURSIVE SubKeysDict(_, _)

\* lines 541-542: {t.data.namespaces[-1]: t.data.compiled_cwl for t in sub_trees}
SubKeysDict(sub_trees, subkeysdict) ==
    IF sub_trees = <<>> THEN subkeysdict
    ELSE Bind(OPut(subkeysdict,
                   sub_trees[1].data.namespaces[Len(sub_trees[1].data.namespaces)],
                   sub_trees[1].data.compiled_cwl),
              LAMBDA put : SubKeysDict(Tail(sub_trees), put))

NoLocals ==
    [err |-> "", bound |-> FALSE, source |-> <<>>, inputs |-> <<>>,
     substepval |-> Empty, subinputval |-> Empty, substep_inputs_new |-> <<>>,
     sub_steps_new |-> <<>>, steps_new |-> <<>>, count |-> 0]

CwlRaised(kind, rose_tree) == [err |-> kind, tree |-> rose_tree]

\* lines 531-666, inlined being what line 529 got for the children.
InlineInto(rose_tree, inlined) ==
    LET node_data == rose_tree.data
        cwl_tree  == node_data.compiled_cwl
    IN  IF \E i \in DOMAIN inlined : inlined[i].err # ""
        THEN CwlRaised(inlined[CHOOSE i \in DOMAIN inlined :
                           /\ inlined[i].err # ""
                           /\ \A j \in 1..(i - 1) : inlined[j].err = ""].err,
                       rose_tree)
        ELSE IF \E i \in DOMAIN inlined : inlined[i].tree.data.namespaces = <<>>
        THEN CwlRaised("IndexError", rose_tree)
        ELSE IF "steps" \notin DOMAIN cwl_tree THEN CwlRaised("KeyError", rose_tree)
        ELSE
        Bind(SubKeysDict([i \in DOMAIN inlined |-> inlined[i].tree], <<>>),
             LAMBDA subkeysdict :
        Bind(StepsLoop(cwl_tree.steps, subkeysdict, OKeys(cwl_tree.steps), NoLocals),
             LAMBDA looped :
            IF looped.err # "" THEN CwlRaised(looped.err, rose_tree)
            ELSE IF "outputs" \notin DOMAIN cwl_tree
            THEN CwlRaised("KeyError", rose_tree)
            ELSE IF OutputsRaise(cwl_tree.outputs)
            THEN CwlRaised("KeyError", rose_tree)
            ELSE [err  |-> "",
                  tree |-> RoseTree(
                      [node_data EXCEPT !.compiled_cwl =
                          [cwl_tree EXCEPT
                              !.steps = looped.steps_new,
                              !.outputs = OutputsLoop(cwl_tree.outputs, <<>>)]],
                      <<>>)]))

RECURSIVE inline_subworkflow_cwl(_)

inline_subworkflow_cwl(rose_tree) ==
    IF rose_tree.sub_trees = <<>> THEN [err |-> "", tree |-> rose_tree]
    ELSE Bind([i \in DOMAIN rose_tree.sub_trees |->
                  inline_subworkflow_cwl(rose_tree.sub_trees[i])],
              LAMBDA inlined : InlineInto(rose_tree, inlined))

----------------------------------------------------------------------------
(* The rose trees given to inline_subworkflow_cwl.  The root graph has the  *)
(* steps u, s and one more; s is a subworkflow with the steps c and d and,  *)
(* at depth 2, the subworkflow t with the step e.                           *)

Ref(step, port) == step \o <<"/">> \o port

Tool(name) == [in |-> <<>>, run |-> name]

\* What the root binds to the formal a of s: a reference to u, the same
\* inside a Dict, or an expression over the input variable b.
Actuals ==
    { StrVal(Ref(<<"u">>, <<"o">>)),
      DictVal([source |-> Ref(<<"u">>, <<"o">>)]),
      StrVal(<<"y">> \o InputsDot \o <<"b", "]">>) }

\* What c binds to its port a: the formal a, the same inside a Dict, a
\* constant, or a list.
CBindings ==
    { StrVal(<<"a">>), DictVal([source |-> <<"a">>]), StrVal(<<"k">>),
      ListVal(<< <<"a">> >>) }

\* What d binds to its port b: the output of c, the same inside a Dict, or
\* a list.
DBindings ==
    { StrVal(Ref(<<"c">>, <<"o">>)), DictVal([source |-> Ref(<<"c">>, <<"o">>)]),
      ListVal(<< Ref(<<"c">>, <<"o">>) >>) }

\* What the last root step reads: the output of u, or the output of the
\* step c of s, written s/c/o or s/c___o.
RootRefs ==
    { Ref(<<"u">>, <<"o">>), Ref(<<"s">>, Ref(<<"c">>, <<"o">>)),
      Ref(<<"s">>, <<"c">> \o Sep \o <<"o">>) }

\* The name of the last root step.
RootKeys == { <<"r">>, <<"s">> \o Sep \o <<"c">> }

GraphT ==
    [steps   |-> << <<<<"e">>, [in  |-> << <<<<"b">>, StrVal(<<"b">>)>> >>,
                              run |-> DotDotSlash \o <<"e">>]>> >>,
     outputs |-> <<>>]

GraphS(cval, dval, depth) ==
    [steps   |-> << <<<<"c">>, [in  |-> << <<<<"a">>, cval>> >>,
                              run |-> DotDotSlash \o <<"c">>]>>,
                    <<<<"d">>, [in  |-> << <<<<"b">>, dval>> >>,
                              run |-> <<"d">>]>> >>
                 \o (IF depth = 2
                     THEN << <<<<"t">>,
                               [in  |-> << <<<<"b">>, StrVal(Ref(<<"c">>, <<"o">>))>> >>,
                                run |-> <<"t">>]>> >>
                     ELSE <<>>),
     outputs |-> <<>>]

GraphR(actual, scatter, rkey, rref) ==
    [steps   |-> << <<<<"u">>, Tool(<<"u">>)>>,
                    <<<<"s">>,
                      [in  |-> << <<<<"a">>, actual>>,
                                  <<<<"b">>, StrVal(Ref(<<"u">>, <<"o">>))>> >>,
                       run |-> <<"s">>]
                      @@ (IF scatter = <<>> THEN Empty ELSE [scatter |-> scatter])>>,
                    <<rkey, [in  |-> << <<<<"x">>, StrVal(rref)>> >>,
                             run |-> <<"r">>]>> >>,
     outputs |-> << <<<<"f">>, [outputSource |-> Ref(<<"s">>, Ref(<<"c">>, <<"o">>))]>>,
                    <<OutputAll \o <<"_", "r">>,
                      [outputSource |-> Ref(<<"s">>, Ref(<<"d">>, <<"o">>))]>>,
                    <<<<"g">>, [outputSource |-> Ref(<<"u">>, <<"o">>)]>> >>]

RoseRoot(actual, scatter, rkey, rref, cval, dval, depth) ==
    RoseTree(NodeData(<<>>, GraphR(actual, scatter, rkey, rref)),
        << RoseTree(NodeData(<< <<"s">> >>, GraphS(cval, dval, depth)),
               IF depth = 2
               THEN << RoseTree(NodeData(<< <<"s">>, <<"t">> >>, GraphT), <<>>) >>
               ELSE <<>>) >>)

InitCwl ==
    /\ pc = "cwl"
    /\ raw = Empty
    /\ tree = YamlTree(StepId("R", "global"), Empty)
    /\ validator = {}
    /\ ignore_validation_errors = FALSE
    /\ searched = {}
    /\ paths = <<>>
    /\ call = NoCall
    /\ backend = "b1"
    /\ in_order = <<"x", "y">>
    /\ aa = Empty
    /\ ms = Empty
    /\ \E actual \in Actuals, scatter \in {<<>>, << <<"a">> >>, << <<"b">> >>},
          rkey \in RootKeys, rref \in RootRefs, cval \in CBindings,
          dval \in DBindings, depth \in 1..2 :
          cw = [phase     |-> "given",
                rose_tree |-> RoseRoot(actual, scatter, rkey, rref, cval, dval, depth),
                ret       |-> CwlRaised("", Empty)]
    /\ rd = Empty

InlineCwl ==
    /\ pc = "cwl"
    /\ cw.phase = "given"
    /\ cw' = [cw EXCEPT !.phase = "inlined",
                        !.ret = inline_subworkflow_cwl(cw.rose_tree)]
    /\ UNCHANGED <<pc, raw, tree, validator, ignore_validation_errors, searched,
                   paths, call, backend, in_order, aa, ms, rd>>

NextCwl == InlineCwl

SpecCwl == InitCwl /\ [][NextCwl]_vars

----------------------------------------------------------------------------
(* Claims about inline_subworkflow_cwl.                                     *)

\* The call returned.
Inlined == cw.phase = "inlined" /\ cw.ret.err = ""

GivenGraph == cw.rose_tree.data.compiled_cwl
RetGraph   == cw.ret.tree.data.compiled_cwl

\* The child of the rose tree compiled for the step step_key, if any.
HasChild(rose_tree, step_key) ==
    \E i \in DOMAIN rose_tree.sub_trees :
        rose_tree.sub_trees[i].data.namespaces[
            Len(rose_tree.sub_trees[i].data.namespaces)] = step_key

ChildOf(rose_tree, step_key) ==
    rose_tree.sub_trees[CHOOSE i \in DOMAIN rose_tree.sub_trees :
        rose_tree.sub_trees[i].data.namespaces[
            Len(rose_tree.sub_trees[i].data.namespaces)] = step_key]

RECURSIVE FlatNames(_)

\* The names of the steps of the flattened tree, in order: a step with a
\* child stands for the flattened steps of that child, each prefixed with
\* the step's key and '___'.
FlatNames(rose_tree) ==
    LET keys == OKeys(rose_tree.data.compiled_cwl.steps)
    IN  Concat([i \in DOMAIN keys |->
            IF HasChild(rose_tree, keys[i])
            THEN LET below == FlatNames(ChildOf(rose_tree, keys[i]))
                 IN  [j \in DOMAIN below |-> keys[i] \o Sep \o below[j]]
            ELSE <<keys[i]>>])

Distinct(seq) == \A i, j \in DOMAIN seq : seq[i] = seq[j] => i = j

\* Every non-subworkflow step of the root is a step of the graph returned.
RootStepsKept ==
    \A i \in DOMAIN GivenGraph.steps :
        ~ HasChild(cw.rose_tree, GivenGraph.steps[i][1]) =>
            \E j \in DOMAIN RetGraph.steps : RetGraph.steps[j] = GivenGraph.steps[i]

InlinedApart == Inlined /\ Distinct(FlatNames(cw.rose_tree))

\* The step of the graph returned that stands for the step substepkey of
\* the child compiled for the root step step_key.
SplicedStep(step_key, substepkey) ==
    OGet(RetGraph.steps, step_key \o Sep \o substepkey)

\* P(step_key, parent, substepkey, subinputkey, subinputval) holds for every
\* port of every non-subworkflow step of every child of the root, parent
\* being the root step the child was compiled for.
ForEachSplicedPort(P(_, _, _, _, _)) ==
    \A i \in DOMAIN GivenGraph.steps :
        LET step_key == GivenGraph.steps[i][1]
        IN  HasChild(cw.rose_tree, step_key) =>
                LET child     == ChildOf(cw.rose_tree, step_key)
                    sub_steps == child.data.compiled_cwl.steps
                IN  \A j \in DOMAIN sub_steps :
                        ~ HasChild(child, sub_steps[j][1]) =>
                            \A n \in DOMAIN sub_steps[j][2].in :
                                P(step_key, GivenGraph.steps[i][2], sub_steps[j][1],
                                  sub_steps[j][2].in[n][1], sub_steps[j][2].in[n][2])

HasSlash(v) ==
    \/ IsStr(v) /\ "/" \in Range(v.str)
    \/ IsDict(v) /\ "source" \in DOMAIN v.dict /\ "/" \in Range(v.dict.source)

\* The binding names a formal input of the parent step.
NamesFormal(subinputval, parent) ==
    \/ IsStr(subinputval) /\ OHas(parent.in, subinputval.str)
    \/ /\ IsDict(subinputval) /\ "source" \in DOMAIN subinputval.dict
       /\ OHas(parent.in, subinputval.dict.source)

FormalOf(subinputval) ==
    IF IsStr(subinputval) THEN subinputval.str ELSE subinputval.dict.source

\* The parent step is scattered and binds a cross-step reference to the
\* formal input the sub-step's port is bound to.
ScatteredActual(parent, subinputval) ==
    /\ Get(parent, "scatter", <<>>) # <<>>
    /\ NamesFormal(subinputval, parent)
    /\ HasSlash(OGet(parent.in, FormalOf(subinputval)))

\* The actual value, its source flattened and not prefixed.
Flattened(v) ==
    IF IsStr(v) THEN StrVal(move_slash_last(v.str))
    ELSE DictVal([v.dict EXCEPT !.source = move_slash_last(@)])

ActualScattered(step_key, parent, substepkey, subinputkey, subinputval) ==
    ScatteredActual(parent, subinputval) =>
        LET step == SplicedStep(step_key, substepkey)
        IN  /\ OGet(step.in, subinputkey)
                   = Flattened(OGet(parent.in, FormalOf(subinputval)))
            /\ subinputkey \in Range(Get(step, "scatter", <<>>))
            /\ Get(step, "scatterMethod", "") = "dotproduct"

ActualNotScattered(step_key, parent, substepkey, subinputkey, subinputval) ==
    LET step == SplicedStep(step_key, substepkey)
    IN  /\ ScatteredActual(parent, subinputval) =>
              /\ OGet(step.in, subinputkey)
                     = Flattened(OGet(parent.in, FormalOf(subinputval)))
              /\ subinputkey \notin Range(Get(step, "scatter", <<>>))
        /\ (Get(parent, "scatter", <<>>) # <<>> /\ HasSlash(subinputval)) =>
              /\ subinputkey \in Range(Get(step, "scatter", <<>>))
              /\ Get(step, "scatterMethod", "") = "dotproduct"

NotOutputAll(outkey) == ~ HasOutputAll(outkey)

\* C15: after inlining a tree with a child, the outputs of the root graph
\* are the given outputs whose name does not contain 'output_all', each
\* with its outputSource passed through move_slash_last; the others are
\* absent.
OutputsRewritten ==
    Inlined =>
        /\ cw.rose_tree.sub_trees # <<>>
        /\ OKeys(RetGraph.outputs) = SelectSeq(OKeys(GivenGraph.outputs), NotOutputAll)
        /\ \A i \in DOMAIN RetGraph.outputs :
               RetGraph.outputs[i][2].outputSource =
                   move_slash_last(
                       OGet(GivenGraph.outputs, RetGraph.outputs[i][1]).outputSource)

\* 's/c/o' has become 's___c/o' and the output output_all_r is gone.
OutputsWitness ==
    /\ Inlined
    /\ OGet(GivenGraph.outputs, <<"f">>).outputSource = Ref(<<"s">>, Ref(<<"c">>, <<"o">>))
    /\ OGet(RetGraph.outputs, <<"f">>).outputSource
           = Ref(<<"s">> \o Sep \o <<"c">>, <<"o">>)
    /\ OHas(GivenGraph.outputs, OutputAll \o <<"_", "r">>)
    /\ ~ OHas(RetGraph.outputs, OutputAll \o <<"_", "r">>)

\* The binding a port has by default: the sub-step's own value, a str or
\* the source of a Dict prefixed with the parent step's key.
DefaultOf(step_key, subinputval) ==
    IF IsStr(subinputval) THEN StrVal(step_key \o Sep \o subinputval.str)
    ELSE IF IsDict(subinputval) /\ "source" \in DOMAIN subinputval.dict
         THEN DictVal([subinputval.dict EXCEPT
                          !.source = step_key \o Sep \o move_slash_last(@)])
         ELSE subinputval

PortKept(step_key, parent, substepkey, subinputkey, subinputval) ==
    LET step == SplicedStep(step_key, substepkey)
    IN  /\ OHas(step.in, subinputkey)
        /\ ~ NamesFormal(subinputval, parent) =>
               OGet(step.in, subinputkey) = DefaultOf(step_key, subinputval)

\* C20: every port of a sub-step is still a port of the renamed step,
\* whatever the shape of the value bound to it, and its binding is replaced
\* by an actual value of the parent only when the sub-step's own binding
\* names a formal input of the parent step.
SplicingKeepsPorts == InlinedApart => ForEachSplicedPort(PortKept)

\* The strs in a value that may be references.
Sources(v) ==
    IF IsStr(v) THEN {v.str}
    ELSE IF IsDict(v) THEN {Get(v.dict, "source", <<>>)}
    ELSE Range(v.list)

\* The reference names a step of the graph: what precedes one of its
\* slashes is the name of a step.
Resolves(ref, steps) ==
    "/" \in Range(ref) =>
        \E i \in DOMAIN ref : ref[i] = "/" /\ OHas(steps, SubSeq(ref, 1, i - 1))

RefsResolve(graph) ==
    /\ \A i \in DOMAIN graph.steps :
           \A n \in DOMAIN graph.steps[i][2].in :
               \A ref \in Sources(graph.steps[i][2].in[n][2]) :
                   Resolves(ref, graph.steps)
    /\ \A i \in DOMAIN graph.outputs :
           Resolves(graph.outputs[i][2].outputSource, graph.steps)

RECURSIVE AllRefsResolve(_)

AllRefsResolve(rose_tree) ==
    /\ RefsResolve(rose_tree.data.compiled_cwl)
    /\ \A i \in DOMAIN rose_tree.sub_trees : AllRefsResolve(rose_tree.sub_trees[i])

\* C19: when every reference of every given graph names a step of its
\* graph, every reference of the graph returned, in the bindings of its
\* steps and in its outputs, names a step of the graph returned.
RefsStayResolvable ==
    (InlinedApart /\ AllRefsResolve(cw.rose_tree)) => RefsResolve(RetGraph)

----------------------------------------------------------------------------
(* read_ast_from_disk call by call: rd.stack holds the calls in progress,   *)
(* the innermost last.  A call is at "validate" when it starts, then in the *)
(* loop over its backends or over its steps, i being the next one.          *)

\* A subworkflow that names itself as one of its steps.
DocSelf == [steps |-> << Step("A", NoneVal), Step("S.yml", NoneVal) >>]

\* Two subworkflows that name each other.
DocToT == [steps |-> << Step("T.yml", NoneVal) >>]

DocToS == [steps |-> << Step("A", NoneVal), Step("S.yml", NoneVal) >>]

Catalogs ==
    { yml_paths,
      [global |-> [S |-> File(DocSelf), Z |-> File(DocZ), K |-> File(DocK)]],
      [global |-> [S |-> File(DocToT), T |-> File(DocToS), Z |-> File(DocZ),
                   K |-> File(DocK)]] }

\* The depth of calls at which the interpreter raises RecursionError.
RecursionLimit == 6

Called(step_id, yaml_tree) ==
    [step_id |-> step_id, yaml_tree |-> yaml_tree, at |-> "validate", i |-> 1,
     backends_trees |-> Empty]

InitRead ==
    /\ pc = "reading"
    /\ tree = YamlTree(StepId("R", "global"), Empty)
    /\ validator \in {{}, {DocT}}
    /\ ignore_validation_errors \in BOOLEAN
    /\ searched = {}
    /\ paths = <<>>
    /\ call = NoCall
    /\ backend = "b1"
    /\ in_order = <<"x", "y">>
    /\ aa = Empty
    /\ ms = Empty
    /\ cw = Empty
    /\ \E catalog \in Catalogs, shape \in 1..4, rns \in {"", "N"}, sns \in {"", "N"} :
          /\ raw = RootDoc(shape, rns, sns, TRUE, NoneVal, NoneVal)
          /\ rd = [yml_paths |-> catalog,
                   stack     |-> << Called(StepId("R", "global"), raw) >>,
                   status    |-> "running",
                   ret       |-> Empty]

Top == rd.stack[Len(rd.stack)]

Running == pc = "reading" /\ rd.status = "running"

ReadUnchanged ==
    UNCHANGED <<pc, raw, tree, validator, ignore_validation_errors, searched,
                paths, call, backend, in_order, aa, ms, cw>>

\* A recursive call: one more call in progress, unless the interpreter's
\* limit is reached.
Recurse(step_id, yaml_tree) ==
    IF Len(rd.stack) >= RecursionLimit
    THEN [rd EXCEPT !.status = "RecursionError"]
    ELSE [rd EXCEPT !.stack = Append(@, Called(step_id, yaml_tree))]

\* Lines 45-60: validation, then the choice between backends and steps.
ReadValidate ==
    /\ Running
    /\ Top.at = "validate"
    /\ rd' = IF ~ ignore_validation_errors /\ Top.yaml_tree \in validator
             THEN [rd EXCEPT !.status = "ValidationFailed"]
             ELSE [rd EXCEPT !.stack[Len(rd.stack)].at =
                      IF "backends" \in DOMAIN Get(Top.yaml_tree, "wic", Empty)
                      THEN "backends" ELSE "steps"]
    /\ ReadUnchanged

BackendNames == InOrder(DOMAIN Top.yaml_tree.wic.backends, BackendOrder)

\* Lines 66-71: the next backend is read.
ReadBackend ==
    /\ Running
    /\ Top.at = "backends"
    /\ Top.i <= Len(BackendNames)
    /\ LET back_name == BackendNames[Top.i]
           plugin_ns == Get(Top.yaml_tree.wic, "namespace", "global")
       IN  rd' = Recurse(StepId(back_name, plugin_ns),
                         Top.yaml_tree.wic.backends[back_name])
    /\ ReadUnchanged

\* Lines 82-86: a step that names a tool is passed over.
ReadTool ==
    /\ Running
    /\ Top.at = "steps"
    /\ Top.i <= Len(Top.yaml_tree.steps)
    /\ LET steps_keys == get_steps_keys(Top.yaml_tree.steps)
       IN  steps_keys[Top.i] \notin get_subkeys(steps_keys, ToolStems)
    /\ rd' = [rd EXCEPT !.stack[Len(rd.stack)].i = @ + 1]
    /\ ReadUnchanged

\* Lines 86-116: a step that names a subworkflow is looked up and read.
ReadSubworkflow ==
    /\ Running
    /\ Top.at = "steps"
    /\ Top.i <= Len(Top.yaml_tree.steps)
    /\ LET steps_keys == get_steps_keys(Top.yaml_tree.steps)
           step_key   == steps_keys[Top.i]
           stem       == PathStem(step_key)
           wic_steps  == Get(Get(Top.yaml_tree, "wic", Empty), "steps", Empty)
           sub_wic    == Get(wic_steps, StepKeyStr(Top.i - 1, step_key), Empty)
           plugin_ns  == PluginNs(sub_wic)
           paths_ns_i == Get(rd.yml_paths, plugin_ns, Empty)
       IN  /\ step_key \in get_subkeys(steps_keys, ToolStems)
           /\ rd' = IF paths_ns_i = Empty
                    THEN [rd EXCEPT !.status = "NamespaceMiss"]
                    ELSE IF stem \notin DOMAIN paths_ns_i
                    THEN [rd EXCEPT !.status = "StemMiss"]
                    ELSE IF ~ paths_ns_i[stem].exists
                    THEN [rd EXCEPT !.status = "DocumentNotFound"]
                    ELSE Recurse(StepId(step_key, plugin_ns), paths_ns_i[stem].doc)
    /\ ReadUnchanged

\* The innermost call has gone through its backends or steps.
Finished ==
    \/ Top.at = "backends" /\ Top.i > Len(BackendNames)
    \/ Top.at = "steps" /\ Top.i > Len(Top.yaml_tree.steps)

\* Lines 73-74 and 124: what the innermost call returns.
Returned ==
    YamlTree(Top.step_id,
             IF Top.at = "backends"
             THEN [Top.yaml_tree EXCEPT !.wic.backends = Top.backends_trees]
             ELSE Top.yaml_tree)

\* Lines 72 and 119-122: the caller goes on with what the call returned.
Resumed(caller, y_t) ==
    IF caller.at = "backends"
    THEN [caller EXCEPT !.backends_trees = Put(@, y_t.step_id, y_t.doc),
                        !.i = @ + 1]
    ELSE LET step_key == get_steps_keys(caller.yaml_tree.steps)[caller.i]
         IN  [caller EXCEPT
                 !.yaml_tree.steps[caller.i] =
                     Step(step_key, ResolvedStep(y_t.doc, @[step_key])),
                 !.i = @ + 1]

ReadReturn ==
    /\ Running
    /\ Finished
    /\ rd' = IF Len(rd.stack) = 1
             THEN [rd EXCEPT !.status = "returned", !.ret = Returned]
             ELSE [rd EXCEPT !.stack =
                      Append(SubSeq(rd.stack, 1, Len(rd.stack) - 2),
                             Resumed(rd.stack[Len(rd.stack) - 1], Returned))]
    /\ ReadUnchanged

NextRead == ReadValidate \/ ReadBackend \/ ReadTool \/ ReadSubworkflow \/ ReadReturn

SpecRead == InitRead /\ [][NextRead]_vars

\* The interpreter goes on with a call in progress.
SpecReadFair == SpecRead /\ WF_vars(NextRead)

\* C17: resolution ends: the root call returns a resolved tree, or the run
\* aborts with a validation failure, a missing namespace, a missing stem or
\* a missing file, also when a subworkflow names itself, directly or
\* through other documents.
ResolutionEnds ==
    <>(rd.status \in {"returned", "ValidationFailed", "NamespaceMiss", "StemMiss",
                      "DocumentNotFound"})

============================================================================
